---- MODULE Spec2Model ----
(***************************************************************************)
(* Inflation dashboard: the data enrichment pipeline (src/pipeline.py),    *)
(* the snapshot reader behind streamlit's cache (src/components/data.py,   *)
(* app.py) and the static region table (src/data/region_map.py).           *)
(*                                                                         *)
(* Strings are sequences of one-character strings, so that strip, upper,   *)
(* the date parser and the numeric parser are computed character by        *)
(* character.  A timestamp is the integer year*10000 + month*100 + day,    *)
(* whose order is the calendar order.  A table is a sequence of rows; a    *)
(* row carries its pandas index label in the field idx until               *)
(* reset_index(drop=True) renumbers it.                                    *)
(***************************************************************************)
EXTENDS Integers, Sequences, FiniteSets, TLC

VARIABLES
    \* classify_era applied to one timestamp
    eraIn, eraOut,
    \* clean_dataframe applied to one raw table
    raw, cleanPc, cleaned, survivors, recleaned,
    \* the file system
    rawDirExists, rawFile, processedDirExists, snapshot,
    \* the pipeline process: position in run_pipeline and its locals
    pc, error, df_raw, df_clean, report,
    \* history: the file when the run began, the frame it was last written from
    snapshotAtStart, snapshotSource,
    \* the dashboard process: the two cache_data stores and the last call
    cacheProcessed, cacheDataset, lastLoad,
    \* the region lookup applied to one area code
    regionIn, regionOut,
    \* one call of an aggregation function: its arguments, which function
    \* was called, and what the call produced
    adf, latest_period, window, threshold, aCall, aOut

eraVars == <<eraIn, eraOut>>
cleanVars == <<raw, cleanPc, cleaned, survivors, recleaned>>
pipeVars == <<rawDirExists, rawFile, processedDirExists, snapshot, pc, error,
              df_raw, df_clean, report, snapshotAtStart, snapshotSource>>
dashVars == <<cacheProcessed, cacheDataset, lastLoad>>
regionVars == <<regionIn, regionOut>>
anaVars == <<adf, latest_period, window, threshold, aCall, aOut>>
vars == <<eraVars, cleanVars, pipeVars, dashVars, regionVars, anaVars>>

(***************************************************************************)
(* Bounds of the model.                                                    *)
(***************************************************************************)
MaxRows == 3

(***************************************************************************)
(* Strings.                                                                *)
(***************************************************************************)
\* pandas' missing string (pd.NA); no character sequence equals it.
NA == <<"<NA>">>

\* A missing timestamp (NaT) and a missing number (NaN).
NaT == -1
NaN == -999999

Upper == <<"A","B","C","D","E","F","G","H","I","J","K","L","M",
           "N","O","P","Q","R","S","T","U","V","W","X","Y","Z">>
Lower == <<"a","b","c","d","e","f","g","h","i","j","k","l","m",
           "n","o","p","q","r","s","t","u","v","w","x","y","z">>
Digits == <<"0","1","2","3","4","5","6","7","8","9">>

\* Code-point order of the characters the model uses.
Alphabet == <<" ", "-", ".", "/">> \o Digits \o Upper \o Lower

IndexOf(seq, c) ==
    IF \E i \in DOMAIN seq : seq[i] = c
    THEN CHOOSE i \in DOMAIN seq : seq[i] = c
    ELSE 0

Ord(c) == IndexOf(Alphabet, c)

IsSpace(c) == c = " "
IsDigit(c) == IndexOf(Digits, c) > 0

RECURSIVE LStrip(_)
LStrip(s) ==
    IF s # <<>> /\ IsSpace(Head(s)) THEN LStrip(Tail(s)) ELSE s

RECURSIVE RStrip(_)
RStrip(s) ==
    IF s # <<>> /\ IsSpace(s[Len(s)]) THEN RStrip(SubSeq(s, 1, Len(s) - 1)) ELSE s

\* Series.str.strip(): missing stays missing.
StrStrip(s) == IF s = NA THEN NA ELSE RStrip(LStrip(s))

UpperChar(c) == IF IndexOf(Lower, c) > 0 THEN Upper[IndexOf(Lower, c)] ELSE c

\* Series.str.upper(): missing stays missing.
StrUpper(s) == IF s = NA THEN NA ELSE [i \in DOMAIN s |-> UpperChar(s[i])]

\* Series.fillna(v)
FillNa(s, v) == IF s = NA THEN v ELSE s

\* Lexicographic order of two strings by code point.
RECURSIVE StrLess(_, _)
StrLess(a, b) ==
    IF b = <<>> THEN FALSE
    ELSE IF a = <<>> THEN TRUE
    ELSE IF Ord(Head(a)) < Ord(Head(b)) THEN TRUE
    ELSE IF Ord(Head(a)) > Ord(Head(b)) THEN FALSE
    ELSE StrLess(Tail(a), Tail(b))

(***************************************************************************)
(* Region table (src/data/region_map.py).                                  *)
(***************************************************************************)
REGION_DEFINITIONS ==
  <<
    [region |-> "North America", codes |-> <<
        <<"C","A","N">>, <<"U","S","A">>, <<"G","R","L">>, <<"B","M","U">>>>],
    [region |-> "Latin America & Caribbean", codes |-> <<
        <<"A","B","W">>, <<"A","I","A">>, <<"A","T","G">>, <<"A","R","G">>, <<"B","H","S">>, <<"B","R","B">>,
        <<"B","L","Z">>, <<"B","O","L">>, <<"B","R","A">>, <<"C","H","L">>, <<"C","O","L">>, <<"C","R","I">>,
        <<"C","U","B">>, <<"C","U","W">>, <<"C","Y","M">>, <<"D","M","A">>, <<"D","O","M">>, <<"E","C","U">>,
        <<"G","L","P">>, <<"G","R","D">>, <<"G","T","M">>, <<"G","U","F">>, <<"G","U","Y">>, <<"H","N","D">>,
        <<"H","T","I">>, <<"J","A","M">>, <<"K","N","A">>, <<"L","C","A">>, <<"M","E","X">>, <<"M","S","R">>,
        <<"M","T","Q">>, <<"N","I","C">>, <<"P","A","N">>, <<"P","E","R">>, <<"P","R","I">>, <<"P","R","Y">>,
        <<"S","U","R">>, <<"T","T","O">>, <<"U","R","Y">>, <<"V","E","N">>, <<"V","C","T">>, <<"V","G","B">>>>],
    [region |-> "Europe & Central Asia", codes |-> <<
        <<"A","L","A">>, <<"A","L","B">>, <<"A","N","D">>, <<"A","R","M">>, <<"A","U","T">>, <<"A","Z","E">>,
        <<"B","E","L">>, <<"B","G","R">>, <<"B","I","H">>, <<"B","L","R">>, <<"C","H","E">>, <<"C","Y","P">>,
        <<"C","Z","E">>, <<"D","E","U">>, <<"D","N","K">>, <<"E","S","P">>, <<"E","S","T">>, <<"F","I","N">>,
        <<"F","R","A">>, <<"G","B","R">>, <<"G","E","O">>, <<"G","R","C">>, <<"H","R","V">>, <<"H","U","N">>,
        <<"I","R","L">>, <<"I","S","L">>, <<"I","T","A">>, <<"K","A","Z">>, <<"K","G","Z">>, <<"L","T","U">>,
        <<"L","U","X">>, <<"L","V","A">>, <<"M","D","A">>, <<"M","K","D">>, <<"M","L","T">>, <<"M","N","E">>,
        <<"N","L","D">>, <<"N","O","R">>, <<"P","O","L">>, <<"P","R","T">>, <<"R","O","U">>, <<"R","U","S">>,
        <<"S","M","R">>, <<"S","R","B">>, <<"S","V","K">>, <<"S","V","N">>, <<"S","W","E">>, <<"T","U","R">>,
        <<"U","K","R">>, <<"U","Z","B">>>>],
    [region |-> "Middle East & North Africa", codes |-> <<
        <<"A","R","E">>, <<"B","H","R">>, <<"D","Z","A">>, <<"E","G","Y">>, <<"I","R","N">>, <<"I","R","Q">>,
        <<"I","S","R">>, <<"J","O","R">>, <<"K","W","T">>, <<"L","B","N">>, <<"L","B","Y">>, <<"M","A","R">>,
        <<"M","R","T">>, <<"O","M","N">>, <<"P","S","E">>, <<"Q","A","T">>, <<"S","A","U">>, <<"S","D","N">>,
        <<"S","Y","R">>, <<"T","U","N">>, <<"Y","E","M">>>>],
    [region |-> "Sub-Saharan Africa", codes |-> <<
        <<"A","G","O">>, <<"B","D","I">>, <<"B","E","N">>, <<"B","F","A">>, <<"B","W","A">>, <<"C","I","V">>,
        <<"C","M","R">>, <<"C","O","D">>, <<"C","O","G">>, <<"C","O","M">>, <<"C","P","V">>, <<"D","J","I">>,
        <<"E","T","H">>, <<"G","A","B">>, <<"G","H","A">>, <<"G","I","N">>, <<"G","M","B">>, <<"G","N","B">>,
        <<"G","N","Q">>, <<"K","E","N">>, <<"L","B","R">>, <<"L","S","O">>, <<"M","D","G">>, <<"M","L","I">>,
        <<"M","O","Z">>, <<"M","U","S">>, <<"M","W","I">>, <<"N","A","M">>, <<"N","E","R">>, <<"N","G","A">>,
        <<"R","W","A">>, <<"S","E","N">>, <<"S","L","E">>, <<"S","O","M">>, <<"S","S","D">>, <<"S","T","P">>,
        <<"S","W","Z">>, <<"T","C","D">>, <<"T","G","O">>, <<"T","Z","A">>, <<"U","G","A">>, <<"Z","A","F">>,
        <<"Z","M","B">>, <<"Z","W","E">>, <<"R","E","U">>>>],
    [region |-> "South Asia", codes |-> <<
        <<"A","F","G">>, <<"B","G","D">>, <<"B","T","N">>, <<"I","N","D">>, <<"L","K","A">>, <<"M","D","V">>,
        <<"N","P","L">>, <<"P","A","K">>>>],
    [region |-> "East Asia & Pacific", codes |-> <<
        <<"A","U","S">>, <<"B","R","N">>, <<"C","H","N">>, <<"C","O","K">>, <<"F","J","I">>, <<"F","S","M">>,
        <<"G","U","M">>, <<"H","K","G">>, <<"I","D","N">>, <<"J","P","N">>, <<"K","H","M">>, <<"K","I","R">>,
        <<"K","O","R">>, <<"L","A","O">>, <<"M","A","C">>, <<"M","M","R">>, <<"M","N","G">>, <<"M","Y","S">>,
        <<"N","C","L">>, <<"N","Z","L">>, <<"P","H","L">>, <<"P","N","G">>, <<"P","L","W">>, <<"S","G","P">>,
        <<"S","L","B">>, <<"T","H","A">>, <<"T","L","S">>, <<"T","O","N">>, <<"V","N","M">>, <<"V","U","T">>,
        <<"W","S","M">>>>]
  >>

AGGREGATE_OVERRIDES ==
    (<<"N","A","C">> :> "North America") @@
    (<<"S","A","S">> :> "South Asia") @@
    (<<"W","L","D">> :> "Global")

\* dict.update(e): the entries of e win.
DictUpdate(d, e) ==
    [k \in (DOMAIN d) \cup (DOMAIN e) |-> IF k \in DOMAIN e THEN e[k] ELSE d[k]]

\* dict.setdefault(k, v): an existing entry wins.
DictSetDefault(d, k, v) == IF k \in DOMAIN d THEN d ELSE DictUpdate(d, k :> v)

SeqToSet(s) == {s[i] : i \in DOMAIN s}

\* The loop over REGION_DEFINITIONS.items(): a later region's update wins.
RECURSIVE BulkMap(_)
BulkMap(n) ==
    IF n = 0 THEN << >>
    ELSE DictUpdate(BulkMap(n - 1),
                    [c \in SeqToSet(REGION_DEFINITIONS[n].codes) |->
                        REGION_DEFINITIONS[n].region])

ISO_REGION_MAP ==
    LET bulk == BulkMap(Len(REGION_DEFINITIONS))
        m0 == DictUpdate(bulk, AGGREGATE_OVERRIDES)
        m1 == DictSetDefault(m0, <<"P","Y","F">>, "East Asia & Pacific")
        m2 == DictSetDefault(m1, <<"R","E","U">>, "Sub-Saharan Africa")
        m3 == DictSetDefault(m2, <<"S","L","V">>, "Latin America & Caribbean")
        m4 == DictSetDefault(m3, <<"S","Y","C">>, "Sub-Saharan Africa")
    IN  DictSetDefault(m4, <<"T","J","K">>, "Europe & Central Asia")

REGION_FALLBACK == "Other / Unmapped"

\* Series.map(ISO_REGION_MAP) without the fillna: a code the map lacks is
\* left missing.
RegionOf_no_fallback(code) ==
    IF code \in DOMAIN ISO_REGION_MAP THEN ISO_REGION_MAP[code] ELSE "<NA>"

\* Series.map(ISO_REGION_MAP).fillna(REGION_FALLBACK)
RegionOf(code) ==
    IF code \in DOMAIN ISO_REGION_MAP THEN ISO_REGION_MAP[code] ELSE REGION_FALLBACK

(***************************************************************************)
(* Parsing and formatting.                                                 *)
(***************************************************************************)
AllDigits(s) == s # <<>> /\ \A i \in DOMAIN s : IsDigit(s[i])

\* The number a string of decimal digits denotes.
RECURSIVE ToInt(_)
ToInt(s) ==
    IF s = <<>> THEN 0
    ELSE 10 * ToInt(SubSeq(s, 1, Len(s) - 1)) + (IndexOf(Digits, s[Len(s)]) - 1)

\* The fields of s between the occurrences of sep.
RECURSIVE Split(_, _)
Split(s, sep) ==
    IF \E i \in DOMAIN s : s[i] = sep
    THEN LET i == CHOOSE i \in DOMAIN s :
                    s[i] = sep /\ \A j \in 1..(i - 1) : s[j] # sep
         IN  <<SubSeq(s, 1, i - 1)>> \o Split(SubSeq(s, i + 1, Len(s)), sep)
    ELSE <<s>>

IsLeap(y) == (y % 4 = 0 /\ y % 100 # 0) \/ y % 400 = 0

DaysInMonth(y, m) ==
    IF m = 2 THEN (IF IsLeap(y) THEN 29 ELSE 28)
    ELSE IF m \in {4, 6, 9, 11} THEN 30
    ELSE 31

Timestamp(y, m, d) == y * 10000 + m * 100 + d
YearOf(ts) == ts \div 10000
MonthOf(ts) == (ts \div 100) % 100
DayOf(ts) == ts % 100

\* pd.to_datetime(s, errors="coerce", format="%Y-%m-%d") of one string:
\* %Y is four digits, %m and %d one or two, the date must exist and lie in
\* the range of a nanosecond Timestamp; anything else is coerced to NaT.
ToDatetime(s) ==
    IF s = NA THEN NaT
    ELSE LET f == Split(s, "-")
         IN  IF /\ Len(f) = 3
                /\ AllDigits(f[1]) /\ Len(f[1]) = 4
                /\ AllDigits(f[2]) /\ Len(f[2]) \in {1, 2}
                /\ AllDigits(f[3]) /\ Len(f[3]) \in {1, 2}
             THEN LET y == ToInt(f[1])
                      m == ToInt(f[2])
                      d == ToInt(f[3])
                  IN  IF /\ m \in 1..12
                         /\ d \in 1..DaysInMonth(y, m)
                         /\ Timestamp(y, m, d) > 16770921
                         /\ Timestamp(y, m, d) <= 22620411
                      THEN Timestamp(y, m, d)
                      ELSE NaT
             ELSE NaT

\* ToNumeric with a failed parse defaulted to 0 instead of coerced to NaN.
ToNumeric_defaulting(v) ==
    IF v = NA \/ v = <<>> THEN 0
    ELSE IF Head(v) = "-"
         THEN (IF AllDigits(Tail(v)) THEN 0 - ToInt(Tail(v)) ELSE 0)
         ELSE (IF AllDigits(v) THEN ToInt(v) ELSE 0)

\* pd.to_numeric(v, errors="coerce") of one raw value.  The numeric
\* literals of the model are optionally signed decimal integers; a missing
\* value and any other text are coerced to NaN.
ToNumeric(v) ==
    IF v = NA \/ v = <<>> THEN NaN
    ELSE IF Head(v) = "-"
         THEN (IF AllDigits(Tail(v)) THEN 0 - ToInt(Tail(v)) ELSE NaN)
         ELSE (IF AllDigits(v) THEN ToInt(v) ELSE NaN)

\* n in decimal, zero-padded to w digits.
RECURSIVE ZeroPad(_, _)
ZeroPad(n, w) ==
    IF w = 0 THEN <<>> ELSE ZeroPad(n \div 10, w - 1) \o <<Digits[(n % 10) + 1]>>

\* Timestamp.to_period("M") rendered by astype(str): "YYYY-MM".
YearMonth(ts) == ZeroPad(YearOf(ts), 4) \o <<"-">> \o ZeroPad(MonthOf(ts), 2)

(***************************************************************************)
(* Era classification (src/pipeline.py, classify_era).                     *)
(***************************************************************************)
\* classify_era with the first boundary closed on the wrong side.
classify_era_closed(timestamp) ==
    IF timestamp <= Timestamp(2007, 7, 1) THEN "Pre-GFC"
    ELSE IF timestamp < Timestamp(2014, 1, 1) THEN "Post-GFC Recovery"
    ELSE IF timestamp < Timestamp(2020, 1, 1) THEN "Commodity Reset"
    ELSE IF timestamp < Timestamp(2022, 2, 1) THEN "Pandemic Shock"
    ELSE "Geopolitical Reordering"

classify_era(timestamp) ==
    IF timestamp < Timestamp(2007, 7, 1) THEN "Pre-GFC"
    ELSE IF timestamp < Timestamp(2014, 1, 1) THEN "Post-GFC Recovery"
    ELSE IF timestamp < Timestamp(2020, 1, 1) THEN "Commodity Reset"
    ELSE IF timestamp < Timestamp(2022, 2, 1) THEN "Pandemic Shock"
    ELSE "Geopolitical Reordering"

(***************************************************************************)
(* Cleaning (src/pipeline.py, clean_dataframe).                            *)
(***************************************************************************)
\* df.copy(): the rows under the RangeIndex of the raw frame.
CopyFrame(df) ==
    [i \in DOMAIN df |->
        [idx |-> i,
         REF_AREA |-> df[i].REF_AREA,
         REF_AREA_LABEL |-> df[i].REF_AREA_LABEL,
         TIME_PERIOD |-> df[i].TIME_PERIOD,
         OBS_VALUE |-> df[i].OBS_VALUE]]

\* .astype("string").str.strip().str.upper().fillna("UNK")
NormalizeCode(s) == FillNa(StrUpper(StrStrip(s)), <<"U","N","K">>)

\* .astype("string").str.strip().fillna("Unknown Region")
NormalizeLabel(s) ==
    FillNa(StrStrip(s),
           <<"U","n","k","n","o","w","n"," ","R","e","g","i","o","n">>)

\* Lines 67-77 without the dropna on OBS_VALUE: rows whose value did not
\* parse go on to deduplication.
ParsedFrame_values_kept(df) ==
    LET c == CopyFrame(df)
        ids == [i \in DOMAIN c |->
                  [c[i] EXCEPT !.REF_AREA = NormalizeCode(@),
                               !.REF_AREA_LABEL = NormalizeLabel(@)]]
        dated == [i \in DOMAIN ids |->
                    [ids[i] EXCEPT !.TIME_PERIOD = ToDatetime(@)]]
        hasPeriod(r) == r.TIME_PERIOD # NaT
        d1 == SelectSeq(dated, hasPeriod)
    IN  [i \in DOMAIN d1 |-> [d1[i] EXCEPT !.OBS_VALUE = ToNumeric(@)]]

\* Lines 67-78: normalised identifiers, parsed period and value, and the
\* rows whose period or value did not parse dropped.
ParsedFrame(df) ==
    LET c == CopyFrame(df)
        ids == [i \in DOMAIN c |->
                  [c[i] EXCEPT !.REF_AREA = NormalizeCode(@),
                               !.REF_AREA_LABEL = NormalizeLabel(@)]]
        dated == [i \in DOMAIN ids |->
                    [ids[i] EXCEPT !.TIME_PERIOD = ToDatetime(@)]]
        hasPeriod(r) == r.TIME_PERIOD # NaT
        d1 == SelectSeq(dated, hasPeriod)
        valued == [i \in DOMAIN d1 |->
                     [d1[i] EXCEPT !.OBS_VALUE = ToNumeric(@)]]
        hasValue(r) == r.OBS_VALUE # NaN
    IN  SelectSeq(valued, hasValue)

\* Lines 80-92: region, calendar fields and era.
EnrichRow(r) ==
    [idx |-> r.idx,
     REF_AREA |-> r.REF_AREA,
     REF_AREA_LABEL |-> r.REF_AREA_LABEL,
     TIME_PERIOD |-> r.TIME_PERIOD,
     OBS_VALUE |-> r.OBS_VALUE,
     region |-> RegionOf(r.REF_AREA),
     year |-> YearOf(r.TIME_PERIOD),
     month |-> MonthOf(r.TIME_PERIOD),
     quarter |-> ((MonthOf(r.TIME_PERIOD) - 1) \div 3) + 1,
     year_month |-> YearMonth(r.TIME_PERIOD),
     decade |-> (YearOf(r.TIME_PERIOD) \div 10) * 10,
     era |-> classify_era(r.TIME_PERIOD)]

EnrichedFrame(df) ==
    LET p == ParsedFrame(df) IN [i \in DOMAIN p |-> EnrichRow(p[i])]

\* Order of two rows under sort_values(["REF_AREA", "TIME_PERIOD"]).
KeyLess(a, b) ==
    \/ StrLess(a.REF_AREA, b.REF_AREA)
    \/ a.REF_AREA = b.REF_AREA /\ a.TIME_PERIOD < b.TIME_PERIOD

SameKey(a, b) == a.REF_AREA = b.REF_AREA /\ a.TIME_PERIOD = b.TIME_PERIOD

\* r placed after every row whose key is not greater than its own.
RECURSIVE InsertSorted(_, _)
InsertSorted(t, r) ==
    IF t = <<>> THEN <<r>>
    ELSE IF KeyLess(r, Head(t)) THEN <<r>> \o t
    ELSE <<Head(t)>> \o InsertSorted(Tail(t), r)

\* A sort on TIME_PERIOD alone, the area code ignored.
RECURSIVE SortValues_period_only(_)
SortValues_period_only(t) ==
    IF t = <<>> THEN <<>>
    ELSE LET rest == SortValues_period_only(SubSeq(t, 1, Len(t) - 1))
             r == t[Len(t)]
             before == SelectSeq(rest, LAMBDA x : x.TIME_PERIOD <= r.TIME_PERIOD)
             after == SelectSeq(rest, LAMBDA x : x.TIME_PERIOD > r.TIME_PERIOD)
         IN  before \o <<r>> \o after

\* sort_values on two columns: a stable (lexsort) sort.
RECURSIVE SortValues(_)
SortValues(t) ==
    IF t = <<>> THEN <<>>
    ELSE InsertSorted(SortValues(SubSeq(t, 1, Len(t) - 1)), t[Len(t)])

\* DropDuplicates with keep="first".
DropDuplicates_keep_first(t) ==
    LET keep == {i \in DOMAIN t : ~ \E j \in 1..(i - 1) : SameKey(t[i], t[j])}
        RECURSIVE Pick(_)
        Pick(i) ==
            IF i > Len(t) THEN <<>>
            ELSE (IF i \in keep THEN <<t[i]>> ELSE <<>>) \o Pick(i + 1)
    IN  Pick(1)

\* drop_duplicates(subset=["REF_AREA", "TIME_PERIOD"], keep="last")
DropDuplicates(t) ==
    LET keep == {i \in DOMAIN t : ~ \E j \in (i + 1)..Len(t) : SameKey(t[i], t[j])}
        RECURSIVE Pick(_)
        Pick(i) ==
            IF i > Len(t) THEN <<>>
            ELSE (IF i \in keep THEN <<t[i]>> ELSE <<>>) \o Pick(i + 1)
    IN  Pick(1)

\* reset_index(drop=True)
ResetIndex(t) == [i \in DOMAIN t |-> [t[i] EXCEPT !.idx = i]]

clean_dataframe(df) == ResetIndex(DropDuplicates(SortValues(EnrichedFrame(df))))

\* pd.to_datetime of a column that already holds datetime64[ns] values,
\* flooring each value to the start of its month.
TypedDatetime_floor(ts) == IF ts = NaT THEN NaT ELSE Timestamp(YearOf(ts), MonthOf(ts), 1)

\* pd.to_datetime of a column that already holds datetime64[ns] values:
\* the values come back as they are.
TypedDatetime(ts) == ts

\* pd.to_numeric of a column that already holds float64 values.
TypedNumeric(v) == v

\* Lines 67-78 on a frame whose TIME_PERIOD and OBS_VALUE columns are
\* already typed, as in a frame clean_dataframe returned; the index labels
\* are those of the frame.
ParsedTypedFrame(df) ==
    LET ids == [i \in DOMAIN df |->
                  [idx |-> df[i].idx,
                   REF_AREA |-> NormalizeCode(df[i].REF_AREA),
                   REF_AREA_LABEL |-> NormalizeLabel(df[i].REF_AREA_LABEL),
                   TIME_PERIOD |-> TypedDatetime(df[i].TIME_PERIOD),
                   OBS_VALUE |-> df[i].OBS_VALUE]]
        hasPeriod(r) == r.TIME_PERIOD # NaT
        d1 == SelectSeq(ids, hasPeriod)
        valued == [i \in DOMAIN d1 |->
                     [d1[i] EXCEPT !.OBS_VALUE = TypedNumeric(@)]]
        hasValue(r) == r.OBS_VALUE # NaN
    IN  SelectSeq(valued, hasValue)

\* clean_dataframe applied to a frame with typed columns: the derived
\* columns are assigned anew, then the same sort, de-duplication and
\* reset_index.
clean_dataframe_typed(df) ==
    LET p == ParsedTypedFrame(df)
    IN  ResetIndex(DropDuplicates(SortValues([i \in DOMAIN p |-> EnrichRow(p[i])])))

(***************************************************************************)
(* Inputs of the model.                                                    *)
(***************************************************************************)
FirstYear == 1990
LastYear == 2030

\* Every month start from FirstYear-01-01 through LastYear-01-01, and the
\* last day before each era boundary.
EraInputs ==
    {Timestamp(y, m, 1) : y \in FirstYear..(LastYear - 1), m \in 1..12}
        \cup {Timestamp(LastYear, 1, 1)}
        \cup {Timestamp(2007, 6, 30), Timestamp(2013, 12, 31),
              Timestamp(2019, 12, 31), Timestamp(2022, 1, 31)}

\* Raw identifier pairs: a clean code, the same code in lower case with
\* blanks around it, and a missing code.
RawIds ==
    { <<NA, NA>>,
      << <<"D","E","U">>, <<"G","e","r">> >>,
      << <<" ","d","e","u">>, <<" ","G","e","r"," ">> >> }

\* Raw period strings the format accepts: a month start and a day inside
\* the same month.
GoodPeriods ==
    { <<"2","0","0","7","-","0","7","-","0","1">>,
      <<"2","0","0","7","-","0","7","-","1","5">> }

\* A period string the format rejects (month 13).
BadPeriod == <<"2","0","0","7","-","1","3","-","0","1">>

\* Raw values that are numbers, and a text that is none.
GoodValues == { <<"5">>, <<"1","5">> }
BadValue == <<"x">>

RawRow(id, p, v) ==
    [REF_AREA |-> id[1], REF_AREA_LABEL |-> id[2], TIME_PERIOD |-> p, OBS_VALUE |-> v]

\* Every well-formed row, and one row for each way a row can be malformed.
RawRows ==
    {RawRow(id, p, v) : id \in RawIds, p \in GoodPeriods, v \in GoodValues}
        \cup { RawRow(<< <<"D","E","U">>, <<"G","e","r">> >>, BadPeriod, <<"5">>),
               RawRow(<< <<"D","E","U">>, <<"G","e","r">> >>,
                      <<"2","0","0","7","-","0","7","-","0","1">>, BadValue),
               RawRow(<<NA, NA>>, NA, NA) }

RawTables == UNION {[1..n -> RawRows] : n \in 0..MaxRows}


(***************************************************************************)
(* Snapshot file (pandas to_parquet / read_parquet as used by              *)
(* write_parquet and load_processed_data).  The file is columnar: a type   *)
(* and a sequence of stored values per column, readable only once its      *)
(* footer is written.  A timestamp is stored as a count of days since      *)
(* 1970-01-01.                                                             *)
(***************************************************************************)
\* Days from 1970-01-01 to the calendar date y-m-d.
DaysFromCivil(y, m, d) ==
    LET yy == IF m <= 2 THEN y - 1 ELSE y
        era == yy \div 400
        yoe == yy - era * 400
        mp == IF m > 2 THEN m - 3 ELSE m + 9
        doy == ((153 * mp + 2) \div 5) + d - 1
        doe == yoe * 365 + (yoe \div 4) - (yoe \div 100) + doy
    IN  era * 146097 + doe - 719468

\* The calendar date, as a timestamp, z days after 1970-01-01.
CivilFromDays(z) ==
    LET zz == z + 719468
        era == zz \div 146097
        doe == zz - era * 146097
        yoe == (doe - (doe \div 1460) + (doe \div 36524) - (doe \div 146096)) \div 365
        doy == doe - (365 * yoe + (yoe \div 4) - (yoe \div 100))
        mp == (5 * doy + 2) \div 153
        d == doy - ((153 * mp + 2) \div 5) + 1
        m == IF mp < 10 THEN mp + 3 ELSE mp - 9
        y == yoe + era * 400 + (IF m <= 2 THEN 1 ELSE 0)
    IN  Timestamp(y, m, d)

EncodeTimestamp(ts) == DaysFromCivil(YearOf(ts), MonthOf(ts), DayOf(ts))

\* Columns of the enriched frame, in frame order, with their stored types.
Columns ==
    << <<"REF_AREA", "string">>, <<"REF_AREA_LABEL", "string">>,
       <<"TIME_PERIOD", "timestamp">>, <<"OBS_VALUE", "double">>,
       <<"region", "string">>, <<"year", "int16">>, <<"month", "int8">>,
       <<"quarter", "int8">>, <<"year_month", "string">>,
       <<"decade", "int16">>, <<"era", "string">> >>

ColumnNames == {Columns[i][1] : i \in DOMAIN Columns}

StoredType(c) == Columns[CHOOSE k \in DOMAIN Columns : Columns[k][1] = c][2]

NoFile == [state |-> "absent", schema |-> <<>>, data |-> <<>>]

\* The file as opening it for writing leaves it: present and empty.
TruncatedFile == [state |-> "partial", schema |-> <<>>, data |-> <<>>]

\* The column chunks of df (index=False: the index is not stored); the
\* footer is still missing.
EncodeFrame(df) ==
    [state |-> "partial",
     schema |-> [c \in ColumnNames |-> StoredType(c)],
     data |-> [c \in ColumnNames |->
                  [i \in DOMAIN df |->
                      IF c = "TIME_PERIOD" THEN EncodeTimestamp(df[i][c])
                      ELSE df[i][c]]]]

\* The footer written: the file is a complete snapshot.
CloseFile(f) == [f EXCEPT !.state = "complete"]

\* pd.read_parquet of a complete file: the rows under a fresh RangeIndex,
\* each value decoded by its column's stored type.
ReadParquet(f) ==
    LET n == Len(f.data["REF_AREA"])
    IN  [dtypes |-> f.schema,
         rows |-> [i \in 1..n |->
                     [idx |-> i] @@
                     [c \in DOMAIN f.schema |->
                        IF f.schema[c] = "timestamp"
                        THEN CivilFromDays(f.data[c][i])
                        ELSE f.data[c][i]]]]

(***************************************************************************)
(* Results of a call, and streamlit's cache_data.                          *)
(***************************************************************************)
NoFrame == [dtypes |-> <<>>, rows |-> <<>>]
NoCall == [kind |-> "none", error |-> "", frame |-> NoFrame]
Returned(frame) == [kind |-> "ok", error |-> "", frame |-> frame]
Raised(e) == [kind |-> "raised", error |-> e, frame |-> NoFrame]

\* A cache_data entry for the one path the application uses.
EmptyCache == [hit |-> FALSE, frame |-> NoFrame]

\* What a cache_data-wrapped function returns: the stored frame when the
\* argument was seen before, the body's result otherwise.
CachedResult(cache, body) ==
    IF cache.hit THEN Returned(cache.frame) ELSE body

\* The cache after the call: a result that returned is stored under the
\* argument; an exception is not stored.
CacheAfter(cache, body) ==
    IF ~cache.hit /\ body.kind = "ok"
    THEN [hit |-> TRUE, frame |-> body.frame]
    ELSE cache

\* load_processed_data_body with an empty frame returned when the file is absent.
load_processed_data_body_default(f) ==
    IF f.state = "absent" THEN Returned(NoFrame)
    ELSE IF f.state = "partial" THEN Raised("ArrowInvalid")
    ELSE Returned(ReadParquet(f))

\* The body of load_processed_data.
load_processed_data_body(f) ==
    IF f.state = "absent" THEN Raised("FileNotFoundError")
    ELSE IF f.state = "partial" THEN Raised("ArrowInvalid")
    ELSE LET df == ReadParquet(f)
         IN  IF "TIME_PERIOD" \in DOMAIN df.dtypes
             THEN Returned(
                    [dtypes |-> [df.dtypes EXCEPT !["TIME_PERIOD"] = "timestamp"],
                     rows |-> [i \in DOMAIN df.rows |->
                                 [df.rows[i] EXCEPT !.TIME_PERIOD =
                                     IF df.dtypes["TIME_PERIOD"] = "timestamp"
                                     THEN @ ELSE ToDatetime(@)]]])
             ELSE Returned(df)

(***************************************************************************)
(* Numbers of the aggregation functions.  Means, shifts, quantiles and     *)
(* shares are exact fractions <<numerator, denominator>> in lowest terms   *)
(* with a positive denominator; <<0, 0>> is the float NaN.  A standard     *)
(* deviation is carried as its square, the sample variance.                *)
(***************************************************************************)
RatNaN == <<0, 0>>

Abs(n) == IF n < 0 THEN 0 - n ELSE n

RECURSIVE GCD(_, _)
GCD(a, b) == IF b = 0 THEN a ELSE GCD(b, a % b)

Rat(n, d) ==
    IF d = 0 THEN RatNaN
    ELSE LET g == GCD(Abs(n), Abs(d))
             s == IF d < 0 THEN 0 - 1 ELSE 1
         IN  <<(s * n) \div g, (s * d) \div g>>

IsNaN(r) == r = RatNaN

RatSub(a, b) ==
    IF IsNaN(a) \/ IsNaN(b) THEN RatNaN
    ELSE Rat(a[1] * b[2] - b[1] * a[2], a[2] * b[2])

RatAbs(a) == <<Abs(a[1]), a[2]>>

\* a < b for two numbers that are not NaN.
RatLess(a, b) == a[1] * b[2] < b[1] * a[2]

RECURSIVE Sum(_)
Sum(xs) == IF xs = <<>> THEN 0 ELSE Head(xs) + Sum(Tail(xs))

\* Series.mean(): NaN for an empty series.
Mean(xs) == Rat(Sum(xs), Len(xs))

\* Series.std() with ddof=1, as its square: NaN for fewer than two values.
Std(xs) ==
    LET n == Len(xs)
        sq == [i \in DOMAIN xs |-> xs[i] * xs[i]]
    IN  Rat(n * Sum(sq) - Sum(xs) * Sum(xs), n * (n - 1))

\* The values of xs in ascending order.
RECURSIVE SortInts(_)
SortInts(xs) ==
    IF xs = <<>> THEN <<>>
    ELSE LET x == xs[Len(xs)]
             rest == SortInts(SubSeq(xs, 1, Len(xs) - 1))
         IN  SelectSeq(rest, LAMBDA y : y <= x) \o <<x>>
                 \o SelectSeq(rest, LAMBDA y : y > x)

\* Series.quantile(qn/qd) with linear interpolation between the two
\* nearest order statistics.
Quantile(xs, qn, qd) ==
    IF xs = <<>> THEN RatNaN
    ELSE LET s == SortInts(xs)
             pos == (Len(xs) - 1) * qn
             lo == pos \div qd
             frac == pos % qd
             hi == IF frac = 0 THEN lo ELSE lo + 1
         IN  Rat(s[lo + 1] * qd + frac * (s[hi + 1] - s[lo + 1]), qd)

\* round(x, 2) of a number that is not NaN: to the nearest hundredth, a
\* tie going to the even hundredth.
Round2(r) ==
    LET n == r[1] * 100
        q == n \div r[2]
        twice == 2 * (n % r[2])
    IN  IF twice > r[2] \/ (twice = r[2] /\ q % 2 = 1)
        THEN Rat(q + 1, 100)
        ELSE Rat(q, 100)

\* timestamp - pd.DateOffset(months=k): k months back, the day clipped to
\* the length of the month arrived at.
MinusMonths(ts, k) ==
    LET total == YearOf(ts) * 12 + (MonthOf(ts) - 1) - k
        y == total \div 12
        m == (total % 12) + 1
        d == IF DayOf(ts) > DaysInMonth(y, m) THEN DaysInMonth(y, m) ELSE DayOf(ts)
    IN  Timestamp(y, m, d)

\* n in decimal, as str(n) writes it, for n >= 0.
RECURSIVE Decimal(_)
Decimal(n) ==
    IF n < 10 THEN <<Digits[n + 1]>>
    ELSE Decimal(n \div 10) \o <<Digits[(n % 10) + 1]>>

\* The strings of S in ascending order, as groupby orders its keys.
RECURSIVE SortStrings(_)
SortStrings(S) ==
    IF S = {} THEN <<>>
    ELSE LET least == CHOOSE s \in S : \A o \in S \ {s} : StrLess(s, o)
         IN  <<least>> \o SortStrings(S \ {least})

\* The integers of S in ascending order.
RECURSIVE SortSetOfInts(_)
SortSetOfInts(S) ==
    IF S = {} THEN <<>>
    ELSE LET least == CHOOSE s \in S : \A o \in S : s <= o
         IN  <<least>> \o SortSetOfInts(S \ {least})

\* Every region label in the order groupby("region") yields them.
RegionOrder ==
    << "East Asia & Pacific", "Europe & Central Asia", "Global",
       "Latin America & Caribbean", "Middle East & North Africa",
       "North America", "Other / Unmapped", "South Asia",
       "Sub-Saharan Africa" >>

\* The column of a frame as a sequence.
Column(df, name) == [i \in DOMAIN df |-> df[i][name]]

UNKNOWN_LABEL == <<"U","n","k","n","o","w","n"," ","R","e","g","i","o","n">>

(***************************************************************************)
(* Aggregation functions (src/components/analytics.py) and the hotspot     *)
(* share of the regional view (src/views/regional.py).                     *)
(***************************************************************************)
Result(v) == [kind |-> "returned", value |-> v]
Failure(e) == [kind |-> "raised", error |-> e]

\* The OBS_VALUE of the rows of df with the given label, in row order.
ValuesOfLabel(df, label) ==
    Column(SelectSeq(df, LAMBDA r : r.REF_AREA_LABEL = label), "OBS_VALUE")

LabelsOf(df) == {df[i].REF_AREA_LABEL : i \in DOMAIN df}

\* df.groupby("REF_AREA_LABEL")["OBS_VALUE"].mean()
GroupMean(df) == [l \in LabelsOf(df) |-> Mean(ValuesOfLabel(df, l))]

\* pivot_table(index="TIME_PERIOD", columns="REF_AREA_LABEL",
\* values="OBS_VALUE", aggfunc="mean").sort_index(): a cell with no row is
\* NaN.
country_pivot(df) ==
    LET periods == {df[i].TIME_PERIOD : i \in DOMAIN df}
        cell(p, l) ==
            Mean(Column(SelectSeq(df, LAMBDA r : r.TIME_PERIOD = p
                                                   /\ r.REF_AREA_LABEL = l),
                        "OBS_VALUE"))
    IN  Result([index |-> SortSetOfInts(periods),
                columns |-> SortStrings(LabelsOf(df)),
                cells |-> [k \in periods \X LabelsOf(df) |-> cell(k[1], k[2])]])

\* r placed after every row whose (label, period) is not greater.
RECURSIVE InsertByLabelPeriod(_, _)
InsertByLabelPeriod(t, r) ==
    IF t = <<>> THEN <<r>>
    ELSE IF \/ StrLess(r.REF_AREA_LABEL, Head(t).REF_AREA_LABEL)
            \/ /\ r.REF_AREA_LABEL = Head(t).REF_AREA_LABEL
               /\ r.TIME_PERIOD < Head(t).TIME_PERIOD
         THEN <<r>> \o t
         ELSE <<Head(t)>> \o InsertByLabelPeriod(Tail(t), r)

\* df.sort_values(["REF_AREA_LABEL", "TIME_PERIOD"])
RECURSIVE SortByLabelPeriod(_)
SortByLabelPeriod(t) ==
    IF t = <<>> THEN <<>>
    ELSE InsertByLabelPeriod(SortByLabelPeriod(SubSeq(t, 1, Len(t) - 1)), t[Len(t)])

\* .rolling(window=w, min_periods=m).std() over the rows g of one group:
\* row k looks back over the w rows ending at k.
RollingStd(g, w, m) ==
    [k \in DOMAIN g |->
        LET first == IF k - w + 1 < 1 THEN 1 ELSE k - w + 1
            xs == Column(SubSeq(g, first, k), "OBS_VALUE")
        IN  [REF_AREA_LABEL |-> g[k].REF_AREA_LABEL,
             level_1 |-> g[k].idx,
             volatility |-> IF Len(xs) >= m THEN Std(xs) ELSE RatNaN]]

\* The groups' rolling rows one after the other, in key order.
RECURSIVE ConcatGroups(_, _, _, _)
ConcatGroups(labels, sorted, w, m) ==
    IF labels = <<>> THEN <<>>
    ELSE RollingStd(SelectSeq(sorted, LAMBDA r : r.REF_AREA_LABEL = Head(labels)), w, m)
            \o ConcatGroups(Tail(labels), sorted, w, m)

\* compute_volatility(df, window): rolling() rejects a min_periods above
\* the window.
compute_volatility(df, w) ==
    IF 3 > w
    THEN Failure("ValueError")
    ELSE Result(ConcatGroups(SortStrings(LabelsOf(df)), SortByLabelPeriod(df), w, 3))

\* b placed after every break whose |shift| is not smaller: list.sort with
\* reverse=True keeps the order of equal keys.
RECURSIVE InsertByShift(_, _)
InsertByShift(t, b) ==
    IF t = <<>> THEN <<b>>
    ELSE IF RatLess(RatAbs(Head(t).shift), RatAbs(b.shift)) THEN <<b>> \o t
    ELSE <<Head(t)>> \o InsertByShift(Tail(t), b)

\* The breaks left in the order the loop appended them.
SortByShift_unsorted(t) == t

RECURSIVE SortByShift(_)
SortByShift(t) ==
    IF t = <<>> THEN <<>>
    ELSE InsertByShift(SortByShift(SubSeq(t, 1, Len(t) - 1)), t[Len(t)])

\* The current window with its lower end included.
CurrentWindow_closed(df, P, w) ==
    SelectSeq(df, LAMBDA r : r.TIME_PERIOD <= P /\ r.TIME_PERIOD >= MinusMonths(P, w))

\* The two windows of compute_breaks.
CurrentWindow(df, P, w) ==
    SelectSeq(df, LAMBDA r : r.TIME_PERIOD <= P /\ r.TIME_PERIOD > MinusMonths(P, w))

PrevWindow(df, P, w) ==
    SelectSeq(df, LAMBDA r : /\ r.TIME_PERIOD <= MinusMonths(P, w)
                              /\ r.TIME_PERIOD > MinusMonths(P, w * 2))

\* The loop over grouped_current.items(), in key order.
RECURSIVE BreakLoop(_, _, _, _)
BreakLoop(labels, cur, prev, w) ==
    IF labels = <<>> THEN <<>>
    ELSE LET country == Head(labels)
             prev_avg == IF country \in DOMAIN prev THEN prev[country] ELSE RatNaN
         IN  (IF IsNaN(prev_avg) THEN <<>>
              ELSE <<[country |-> country,
                      latest_avg |-> cur[country],
                      prev_avg |-> prev_avg,
                      shift |-> RatSub(cur[country], prev_avg),
                      period_label |-> <<"Δ">> \o Decimal(w) \o <<"m">>]>>)
                 \o BreakLoop(Tail(labels), cur, prev, w)

\* compute_breaks(df, latest_period, window)
compute_breaks(df, P, w) ==
    LET grouped_current == GroupMean(CurrentWindow(df, P, w))
        grouped_prev == GroupMean(PrevWindow(df, P, w))
    IN  Result(SortByShift(BreakLoop(SortStrings(DOMAIN grouped_current),
                                     grouped_current, grouped_prev, w)))

\* summarize_distribution over the whole table, the period ignored.
summarize_distribution_whole(df, P) ==
    LET slice_df == Column(df, "OBS_VALUE")
    IN  IF slice_df = <<>> THEN Result(<<>>)
        ELSE Result([p10 |-> Quantile(slice_df, 1, 10),
                     p25 |-> Quantile(slice_df, 1, 4),
                     median |-> Quantile(slice_df, 1, 2),
                     p75 |-> Quantile(slice_df, 3, 4),
                     p90 |-> Quantile(slice_df, 9, 10),
                     mean |-> Mean(slice_df),
                     std |-> Std(slice_df)])

\* summarize_distribution(df, latest_period)
summarize_distribution(df, P) ==
    LET slice_df == Column(SelectSeq(df, LAMBDA r : r.TIME_PERIOD = P), "OBS_VALUE")
    IN  IF slice_df = <<>> THEN Result(<<>>)
        ELSE Result([p10 |-> Quantile(slice_df, 1, 10),
                     p25 |-> Quantile(slice_df, 1, 4),
                     median |-> Quantile(slice_df, 1, 2),
                     p75 |-> Quantile(slice_df, 3, 4),
                     p90 |-> Quantile(slice_df, 9, 10),
                     mean |-> Mean(slice_df),
                     std |-> Std(slice_df)])

\* Series.nunique() of the REF_AREA column.
NUnique(df) == Cardinality({df[i].REF_AREA : i \in DOMAIN df})

\* The groupby("region").agg(...) rows with their share, in key order.
RegionSummary(slice_df, T) ==
    LET present == SelectSeq(RegionOrder,
                             LAMBDA g : \E i \in DOMAIN slice_df : slice_df[i].region = g)
    IN  [k \in DOMAIN present |->
            LET rows == SelectSeq(slice_df, LAMBDA r : r.region = present[k])
                countries == NUnique(rows)
                high == Len(SelectSeq(rows, LAMBDA r : r.OBS_VALUE >= T))
                ratio == Rat(high, countries)
            IN  [region |-> present[k],
                 countries |-> countries,
                 high |-> high,
                 share |-> IF IsNaN(ratio) THEN <<0, 1>>
                           ELSE Rat(ratio[1] * 100, ratio[2])]]

\* regional_share(df, latest_period, threshold)
regional_share(df, P, T) ==
    LET slice_df == SelectSeq(df, LAMBDA r : r.TIME_PERIOD = P)
    IN  IF slice_df = <<>> THEN Result(<<>>) ELSE Result(RegionSummary(slice_df, T))

HIGH_INFLATION_THRESHOLD == 10

\* share_hotspots(df) of the regional view.
share_hotspots(df) ==
    IF df = <<>> THEN Result(RatNaN)
    ELSE LET total == NUnique(df)
             hotspots == NUnique(SelectSeq(df, LAMBDA r :
                                     r.OBS_VALUE >= HIGH_INFLATION_THRESHOLD))
         IN  IF total = 0 THEN Result(RatNaN)
             ELSE Result(Round2(Rat(hotspots * 100, total)))

\* The caller's table after compute_volatility, had it sorted the frame in
\* place.
TableAfter_sorted_in_place(call, df) ==
    IF call = "compute_volatility" THEN SortByLabelPeriod(df) ELSE df

\* The caller's table after a call.  No function assigns to, sorts or drops
\* rows of the frame it is given: clean_dataframe works on df.copy(), the
\* others on the new frames that indexing, sort_values, groupby, assign and
\* pivot_table return.
TableAfter(call, df) == df

(***************************************************************************)
(* Risk scores (src/views/risk.py) and their copy in the export            *)
(* (src/components/report_export.py).  The standard deviation entering a   *)
(* risk score is the square root of the sample variance cut to two         *)
(* decimals; every other number is an exact fraction.                      *)
(***************************************************************************)
RatAdd(a, b) ==
    IF IsNaN(a) \/ IsNaN(b) THEN RatNaN
    ELSE Rat(a[1] * b[2] + b[1] * a[2], a[2] * b[2])

RatMul(a, b) ==
    IF IsNaN(a) \/ IsNaN(b) THEN RatNaN ELSE Rat(a[1] * b[1], a[2] * b[2])

\* a / b.  The only quotient by zero the model forms is 0 / 0, which is
\* NaN.
RatDiv(a, b) ==
    IF IsNaN(a) \/ IsNaN(b) THEN RatNaN ELSE Rat(a[1] * b[2], a[2] * b[1])

\* The largest k in lo..hi with k * k <= x.
RECURSIVE ISqrtIn(_, _, _)
ISqrtIn(x, lo, hi) ==
    IF lo = hi THEN lo
    ELSE LET mid == (lo + hi + 1) \div 2
         IN  IF mid * mid <= x THEN ISqrtIn(x, mid, hi) ELSE ISqrtIn(x, lo, mid - 1)

\* The square root of a variance, to two decimals.
Sqrt(v) ==
    IF IsNaN(v) THEN RatNaN
    ELSE Rat(ISqrtIn((v[1] * 10000) \div v[2], 0, 40000), 100)

\* Series.max() and Series.min(): NaN entries are skipped; NaN when no
\* entry is left.
SeriesMax(s) ==
    LET vals == {s[i] : i \in {j \in DOMAIN s : ~ IsNaN(s[j])}}
    IN  IF vals = {} THEN RatNaN
        ELSE CHOOSE m \in vals : \A o \in vals : ~ RatLess(m, o)

SeriesMin(s) ==
    LET vals == {s[i] : i \in {j \in DOMAIN s : ~ IsNaN(s[j])}}
    IN  IF vals = {} THEN RatNaN
        ELSE CHOOSE m \in vals : \A o \in vals : ~ RatLess(o, m)

\* normalize with the equality of max and min not tested.
normalize_unguarded(series) ==
    [i \in DOMAIN series |->
        RatDiv(RatSub(series[i], SeriesMin(series)),
               RatSub(SeriesMax(series), SeriesMin(series)))]

\* normalize(series): NaN == NaN is false, so a series of NaN only takes
\* the division.
normalize(series) ==
    IF ~ IsNaN(SeriesMax(series)) /\ SeriesMax(series) = SeriesMin(series)
    THEN [i \in DOMAIN series |-> <<0, 1>>]
    ELSE [i \in DOMAIN series |->
            RatDiv(RatSub(series[i], SeriesMin(series)),
                   RatSub(SeriesMax(series), SeriesMin(series)))]

\* _normalize with the equality of max and min not tested.
export_normalize_unguarded(series) ==
    [i \in DOMAIN series |->
        RatDiv(RatSub(series[i], SeriesMin(series)),
               RatSub(SeriesMax(series), SeriesMin(series)))]

\* _normalize(series) of report_export.py.
export_normalize(series) ==
    IF ~ IsNaN(SeriesMax(series)) /\ SeriesMax(series) = SeriesMin(series)
    THEN [i \in DOMAIN series |-> <<0, 1>>]
    ELSE [i \in DOMAIN series |->
            RatDiv(RatSub(series[i], SeriesMin(series)),
                   RatSub(SeriesMax(series), SeriesMin(series)))]

\* groupby("REF_AREA_LABEL")["OBS_VALUE"].agg(mean, std, p95, p05), one row
\* per label in key order, with range = p95 - p05.
GroupStats(df) ==
    LET labels == SortStrings(LabelsOf(df))
    IN  [k \in DOMAIN labels |->
            LET xs == ValuesOfLabel(df, labels[k])
            IN  [Country |-> labels[k],
                 mean |-> Mean(xs),
                 volatility |-> Sqrt(Std(xs)),
                 p95 |-> Quantile(xs, 19, 20),
                 p05 |-> Quantile(xs, 1, 20),
                 range |-> RatSub(Quantile(xs, 19, 20), Quantile(xs, 1, 20))]]

\* 0.4 * a + 0.35 * b + 0.25 * c
Weighted(a, b, c) ==
    RatAdd(RatAdd(RatMul(a, <<2, 5>>), RatMul(b, <<7, 20>>)), RatMul(c, <<1, 4>>))

\* a sorts before b under sort_values(ascending=False): NaN goes last.
ScoreBefore(a, b) == ~ IsNaN(a) /\ (IsNaN(b) \/ RatLess(b, a))

\* r placed after every row that does not sort after it.
RECURSIVE InsertByScore(_, _)
InsertByScore(t, r) ==
    IF t = <<>> THEN <<r>>
    ELSE IF ScoreBefore(r.risk_score, Head(t).risk_score) THEN <<r>> \o t
    ELSE <<Head(t)>> \o InsertByScore(Tail(t), r)

\* sort_values("risk_score", ascending=False); rows of equal score keep
\* their order.
RECURSIVE SortByScore(_)
SortByScore(t) ==
    IF t = <<>> THEN <<>>
    ELSE InsertByScore(SortByScore(SubSeq(t, 1, Len(t) - 1)), t[Len(t)])

\* compute_risk_scores(df)
compute_risk_scores(df) ==
    LET grouped == GroupStats(df)
        nmean == normalize(Column(grouped, "mean"))
        nvol == normalize(Column(grouped, "volatility"))
        nrange == normalize(Column(grouped, "range"))
    IN  Result(SortByScore(
            [k \in DOMAIN grouped |->
                [Country |-> grouped[k].Country,
                 mean |-> grouped[k].mean,
                 volatility |-> grouped[k].volatility,
                 p95 |-> grouped[k].p95,
                 p05 |-> grouped[k].p05,
                 range |-> grouped[k].range,
                 risk_score |-> Weighted(nmean[k], nvol[k], nrange[k])]]))

\* The scores frame of _build_risk_sections(df), its "Risk Score" column
\* under the name risk_score.
ExportScores(df) ==
    LET scores == GroupStats(df)
        nmean == export_normalize(Column(scores, "mean"))
        nvol == export_normalize(Column(scores, "volatility"))
        nrange == export_normalize(Column(scores, "range"))
    IN  SortByScore(
            [k \in DOMAIN scores |->
                [Country |-> scores[k].Country,
                 mean |-> scores[k].mean,
                 volatility |-> scores[k].volatility,
                 p95 |-> scores[k].p95,
                 p05 |-> scores[k].p05,
                 range |-> scores[k].range,
                 risk_score |-> Weighted(nmean[k], nvol[k], nrange[k])]])

\* DataFrame.head(20) and DataFrame.tail(20)
Head20(t) == SubSeq(t, 1, IF Len(t) < 20 THEN Len(t) ELSE 20)
Tail20(t) == SubSeq(t, IF Len(t) < 20 THEN 1 ELSE Len(t) - 19, Len(t))

\* _build_risk_sections(df): the unrounded scores of the first section
\* (data_raw) and the countries of the two boards.
build_risk_sections(df) ==
    LET scores == ExportScores(df)
    IN  Result([data_raw |-> [k \in DOMAIN Head20(scores) |->
                                 [Country |-> scores[k].Country,
                                  risk_score |-> scores[k].risk_score]],
                high_risk |-> Column(Head20(scores), "Country"),
                resilient |-> Column(Tail20(scores), "Country")])

\* The rolling frame render_profile_scatter computes inline.
profile_rolling(df, w) ==
    IF 3 > w
    THEN Failure("ValueError")
    ELSE Result(ConcatGroups(SortStrings(LabelsOf(df)), SortByLabelPeriod(df), w, 3))

(***************************************************************************)
(* Values of the variables a specification leaves unused.                  *)
(***************************************************************************)
EraIdle == eraIn = 0 /\ eraOut = "none"
CleanIdle ==
    /\ raw = <<>> /\ cleanPc = "idle" /\ cleaned = <<>> /\ survivors = {}
    /\ recleaned = <<>>

NoReport ==
    [made |-> FALSE, rows_processed |-> 0, countries |-> 0, periods |-> 0,
     time_start |-> <<>>, time_end |-> <<>>, parquet_path |-> ""]

NoRawFile == [exists |-> FALSE, rows |-> <<>>]

Running == {"started", "ensured", "ingested", "cleaned", "opened", "stored", "written"}

PipeIdle ==
    /\ rawDirExists = FALSE /\ rawFile = NoRawFile /\ processedDirExists = FALSE
    /\ snapshot = NoFile /\ snapshotSource = <<>> /\ snapshotAtStart = NoFile
    /\ pc = "idle" /\ error = "" /\ df_raw = <<>> /\ df_clean = <<>>
    /\ report = NoReport
    /\ cacheProcessed = EmptyCache /\ cacheDataset = EmptyCache
    /\ lastLoad = [result |-> NoCall, fresh |-> NoCall, complete |-> FALSE, source |-> <<>>]

RegionIdle == regionIn = <<>> /\ regionOut = "none"

AnaIdle ==
    /\ adf = <<>> /\ latest_period = 0 /\ window = 0 /\ threshold = 0
    /\ aCall = "idle" /\ aOut = [kind |-> "none"]

(***************************************************************************)
(* Era classification applied to one timestamp.                            *)
(***************************************************************************)
InitEra ==
    /\ eraIn \in EraInputs
    /\ eraOut = "none"
    /\ CleanIdle
    /\ PipeIdle
    /\ RegionIdle
    /\ AnaIdle

ClassifyEra ==
    /\ eraOut = "none"
    /\ eraIn # 0
    /\ eraOut' = classify_era(eraIn)
    /\ UNCHANGED <<eraIn, cleanVars, pipeVars, dashVars, regionVars, anaVars>>

NextEra == ClassifyEra

SpecEra == InitEra /\ [][NextEra]_vars

(***************************************************************************)
(* The region lookup of clean_dataframe applied to one normalised code.    *)
(***************************************************************************)
\* Every key of the map, the sentinel for a missing code, the empty code, a
\* code in no list, and a code in lower case.
RegionInputs ==
    (DOMAIN ISO_REGION_MAP)
        \cup {<<"U","N","K">>, <<>>, <<"X","X","X">>, <<"d","e","u">>}

InitRegion ==
    /\ regionIn \in RegionInputs
    /\ regionOut = "none"
    /\ EraIdle
    /\ CleanIdle
    /\ PipeIdle
    /\ AnaIdle

\* df["REF_AREA"].map(ISO_REGION_MAP).fillna(REGION_FALLBACK) for one row.
LookupRegion ==
    /\ regionOut = "none"
    /\ regionOut' = RegionOf(regionIn)
    /\ UNCHANGED <<regionIn, eraVars, cleanVars, pipeVars, dashVars, anaVars>>

NextRegion == LookupRegion

SpecRegion == InitRegion /\ [][NextRegion]_vars

(***************************************************************************)
(* clean_dataframe applied to one raw table.                               *)
(***************************************************************************)
InitClean ==
    /\ raw \in RawTables
    /\ cleanPc = "raw"
    /\ cleaned = <<>>
    /\ survivors = {}
    /\ recleaned = <<>>
    /\ EraIdle
    /\ PipeIdle
    /\ RegionIdle
    /\ AnaIdle

\* One call of clean_dataframe(raw); survivors records the index labels
\* left after the two dropna steps.
Clean ==
    /\ cleanPc = "raw"
    /\ cleaned' = clean_dataframe(raw)
    /\ survivors' = {r.idx : r \in SeqToSet(ParsedFrame(raw))}
    /\ cleanPc' = "cleaned"
    /\ UNCHANGED <<raw, recleaned, eraVars, pipeVars, dashVars, regionVars, anaVars>>

\* clean_dataframe called again, on the table the first call returned.
Reclean ==
    /\ cleanPc = "cleaned"
    /\ recleaned' = clean_dataframe_typed(cleaned)
    /\ cleanPc' = "recleaned"
    /\ UNCHANGED <<raw, cleaned, survivors, eraVars, pipeVars, dashVars, regionVars, anaVars>>

NextClean == Clean \/ Reclean

SpecClean == InitClean /\ [][NextClean]_vars

(***************************************************************************)
(* clean_dataframe applied to raw tables that vary in their identifiers    *)
(* only.                                                                   *)
(***************************************************************************)
MaxNormRows == 2

\* Raw codes and labels as read_csv delivers them under dtype "string": a
\* missing cell, a clean value, a value in blanks, and a cell of one blank.
NormCodes == {NA, <<"D","E","U">>, <<" ","d","e","u"," ">>, <<" ">>}
NormLabels == {NA, <<"G","e","r">>, <<" ","G","e","r"," ">>, <<" ">>}

NormRows ==
    {RawRow(<<c, l>>, <<"2","0","0","7","-","0","7","-","0","1">>, <<"5">>) :
        c \in NormCodes, l \in NormLabels}

InitNorm ==
    /\ raw \in UNION {[1..n -> NormRows] : n \in 0..MaxNormRows}
    /\ cleanPc = "raw"
    /\ cleaned = <<>>
    /\ survivors = {}
    /\ recleaned = <<>>
    /\ EraIdle
    /\ PipeIdle
    /\ RegionIdle
    /\ AnaIdle

SpecNorm == InitNorm /\ [][NextClean]_vars

(***************************************************************************)
(* One call of an aggregation function on one table.                       *)
(***************************************************************************)
MaxObs == 3

AnaRow(code, label, period, value) ==
    [idx |-> 0, REF_AREA |-> code, REF_AREA_LABEL |-> label,
     TIME_PERIOD |-> period, OBS_VALUE |-> value, region |-> RegionOf(code)]

\* Rows a table is drawn from, in (REF_AREA, TIME_PERIOD) order: one code
\* with its own label, and two codes whose missing labels both became
\* "Unknown Region".
AnaUniverse ==
    << AnaRow(<<"D","E","U">>, <<"G","e","r">>, Timestamp(2007, 5, 1), 5),
       AnaRow(<<"D","E","U">>, <<"G","e","r">>, Timestamp(2007, 6, 1), 5),
       AnaRow(<<"D","E","U">>, <<"G","e","r">>, Timestamp(2007, 7, 1), 5),
       AnaRow(<<"D","E","U">>, <<"G","e","r">>, Timestamp(2007, 7, 1), 15),
       AnaRow(<<"F","R","A">>, UNKNOWN_LABEL, Timestamp(2007, 6, 1), 15),
       AnaRow(<<"F","R","A">>, UNKNOWN_LABEL, Timestamp(2007, 7, 1), 5),
       AnaRow(<<"U","N","K">>, UNKNOWN_LABEL, Timestamp(2007, 6, 1), 5),
       AnaRow(<<"U","N","K">>, UNKNOWN_LABEL, Timestamp(2007, 7, 1), 15) >>

\* The index labels of a frame: its row positions.
WithIndex(t) == [i \in DOMAIN t |-> [t[i] EXCEPT !.idx = i]]

\* Every table of up to MaxObs rows of the universe, in key order.
AnaTables ==
    {WithIndex([i \in DOMAIN s |-> AnaUniverse[s[i]]]) :
        s \in {q \in UNION {[1..n -> DOMAIN AnaUniverse] : n \in 0..MaxObs} :
                 \A i \in 1..(Len(q) - 1) : q[i] < q[i + 1]}}

\* Country A: flat at 5 for the first six months of 2007, then at 15 for
\* the next six.
JumpSeries ==
    [m \in 1..12 |->
        AnaRow(<<"D","E","U">>, <<"G","e","r">>, Timestamp(2007, m, 1),
               IF m <= 6 THEN 5 ELSE 15)]

\* A second country with one observation in each six-month window.
OtherSeries(before, after) ==
    << AnaRow(<<"A","U","T">>, <<"A","u","t">>, Timestamp(2007, 6, 1), before),
       AnaRow(<<"A","U","T">>, <<"A","u","t">>, Timestamp(2007, 12, 1), after) >>

\* A third country with a single observation.
ShortSeries ==
    << AnaRow(<<"I","T","A">>, <<"I","t","a">>, Timestamp(2007, 12, 1), 8) >>

\* Country A alone, next to a country whose shift is +3, -12 or -10, and
\* next to that country and one with a single observation.
JumpTables ==
    {WithIndex(JumpSeries)} \cup
    {WithIndex(OtherSeries(v[1], v[2]) \o JumpSeries) :
        v \in {<<5, 8>>, <<15, 3>>, <<15, 5>>}} \cup
    {WithIndex(OtherSeries(5, 8) \o JumpSeries \o ShortSeries)}

AnaPeriods ==
    {Timestamp(2007, 6, 1), Timestamp(2007, 7, 1), Timestamp(2007, 7, 31),
     Timestamp(2007, 12, 1)}
AnaWindows == {1, 2, 3, 6}
AnaThresholds == {5, 10}

InitAna ==
    /\ adf \in AnaTables \cup JumpTables
    /\ latest_period \in AnaPeriods
    /\ window \in AnaWindows
    /\ threshold \in AnaThresholds
    /\ aCall = "none"
    /\ aOut = [kind |-> "none"]
    /\ EraIdle
    /\ CleanIdle
    /\ PipeIdle
    /\ RegionIdle

CountryPivot ==
    /\ aCall = "none"
    /\ aCall' = "country_pivot"
    /\ aOut' = country_pivot(adf)
    /\ adf' = TableAfter("country_pivot", adf)
    /\ UNCHANGED <<latest_period, window, threshold,
                   eraVars, cleanVars, pipeVars, dashVars, regionVars>>

ComputeVolatility ==
    /\ aCall = "none"
    /\ aCall' = "compute_volatility"
    /\ aOut' = compute_volatility(adf, window)
    /\ adf' = TableAfter("compute_volatility", adf)
    /\ UNCHANGED <<latest_period, window, threshold,
                   eraVars, cleanVars, pipeVars, dashVars, regionVars>>

ComputeBreaks ==
    /\ aCall = "none"
    /\ aCall' = "compute_breaks"
    /\ aOut' = compute_breaks(adf, latest_period, window)
    /\ adf' = TableAfter("compute_breaks", adf)
    /\ UNCHANGED <<latest_period, window, threshold,
                   eraVars, cleanVars, pipeVars, dashVars, regionVars>>

SummarizeDistribution ==
    /\ aCall = "none"
    /\ aCall' = "summarize_distribution"
    /\ aOut' = summarize_distribution(adf, latest_period)
    /\ adf' = TableAfter("summarize_distribution", adf)
    /\ UNCHANGED <<latest_period, window, threshold,
                   eraVars, cleanVars, pipeVars, dashVars, regionVars>>

RegionalShare ==
    /\ aCall = "none"
    /\ aCall' = "regional_share"
    /\ aOut' = regional_share(adf, latest_period, threshold)
    /\ adf' = TableAfter("regional_share", adf)
    /\ UNCHANGED <<latest_period, window, threshold,
                   eraVars, cleanVars, pipeVars, dashVars, regionVars>>

\* build_region_kpis: share_hotspots of the rows of the latest period.
ShareHotspots ==
    /\ aCall = "none"
    /\ aCall' = "share_hotspots"
    /\ aOut' = share_hotspots(SelectSeq(adf, LAMBDA r : r.TIME_PERIOD = latest_period))
    /\ adf' = TableAfter("share_hotspots", adf)
    /\ UNCHANGED <<latest_period, window, threshold,
                   eraVars, cleanVars, pipeVars, dashVars, regionVars>>

\* risk.render: compute_risk_scores on the table.
ComputeRiskScores ==
    /\ aCall = "none"
    /\ aCall' = "compute_risk_scores"
    /\ aOut' = compute_risk_scores(adf)
    /\ adf' = TableAfter("compute_risk_scores", adf)
    /\ UNCHANGED <<latest_period, window, threshold,
                   eraVars, cleanVars, pipeVars, dashVars, regionVars>>

\* The export's risk sheet.
BuildRiskSections ==
    /\ aCall = "none"
    /\ aCall' = "build_risk_sections"
    /\ aOut' = build_risk_sections(adf)
    /\ adf' = TableAfter("build_risk_sections", adf)
    /\ UNCHANGED <<latest_period, window, threshold,
                   eraVars, cleanVars, pipeVars, dashVars, regionVars>>

\* The market view's level-versus-volatility map.
RenderProfileScatter ==
    /\ aCall = "none"
    /\ aCall' = "render_profile_scatter"
    /\ aOut' = profile_rolling(adf, window)
    /\ adf' = TableAfter("render_profile_scatter", adf)
    /\ UNCHANGED <<latest_period, window, threshold,
                   eraVars, cleanVars, pipeVars, dashVars, regionVars>>

\* pipeline.clean_dataframe called on the table.
CleanDataframe ==
    /\ aCall = "none"
    /\ aCall' = "clean_dataframe"
    /\ aOut' = Result(clean_dataframe_typed(adf))
    /\ adf' = TableAfter("clean_dataframe", adf)
    /\ UNCHANGED <<latest_period, window, threshold,
                   eraVars, cleanVars, pipeVars, dashVars, regionVars>>

\* The caller is done with the result; the next call sees the same table.
Return ==
    /\ aCall # "none"
    /\ aCall' = "none"
    /\ aOut' = [kind |-> "none"]
    /\ UNCHANGED <<adf, latest_period, window, threshold,
                   eraVars, cleanVars, pipeVars, dashVars, regionVars>>

NextAna ==
    \/ CleanDataframe
    \/ Return
    \/ ComputeRiskScores
    \/ BuildRiskSections
    \/ RenderProfileScatter
    \/ CountryPivot
    \/ ComputeVolatility
    \/ ComputeBreaks
    \/ SummarizeDistribution
    \/ RegionalShare
    \/ ShareHotspots

SpecAna == InitAna /\ [][NextAna]_vars

(***************************************************************************)
(* The pipeline process (src/pipeline.py, run_pipeline) and the dashboard  *)
(* process (app.py, src/components/data.py).  run_pipeline is taken one    *)
(* call and one file operation at a time, because the process can be       *)
(* terminated, and the dashboard can read, between any two of them.        *)
(***************************************************************************)
\* Raw extracts the environment may place in the raw directory.
CsvA ==
    << RawRow(<< <<"D","E","U">>, <<"G","e","r">> >>,
              <<"2","0","0","7","-","0","6","-","0","1">>, <<"5">>),
       RawRow(<<NA, NA>>,
              <<"2","0","0","7","-","0","6","-","1","5">>, <<"1","5">>) >>

CsvB ==
    << RawRow(<< <<" ","d","e","u">>, <<" ","G","e","r"," ">> >>,
              <<"2","0","0","7","-","0","6","-","0","1">>, <<"1","5">>),
       RawRow(<< <<"D","E","U">>, <<"G","e","r">> >>, BadPeriod, <<"5">>) >>

CsvTables == {CsvA, CsvB, <<>>}

\* Either nothing was ever produced, or an earlier run left a complete
\* snapshot of one of the raw extracts.
Init ==
    /\ rawDirExists \in BOOLEAN
    /\ rawFile \in {NoRawFile} \cup
                   (IF rawDirExists
                    THEN {[exists |-> TRUE, rows |-> t] : t \in CsvTables}
                    ELSE {})
    /\ \E prior \in {<<"none">>} \cup {<<"some", t>> : t \in CsvTables} :
          IF prior[1] = "none"
          THEN /\ snapshot = NoFile
               /\ snapshotSource = <<>>
               /\ processedDirExists \in BOOLEAN
          ELSE /\ snapshot = CloseFile(EncodeFrame(clean_dataframe(prior[2])))
               /\ snapshotSource = clean_dataframe(prior[2])
               /\ processedDirExists = TRUE
    /\ snapshotAtStart = snapshot
    /\ pc = "idle" /\ error = "" /\ df_raw = <<>> /\ df_clean = <<>>
    /\ report = NoReport
    /\ cacheProcessed = EmptyCache /\ cacheDataset = EmptyCache
    /\ lastLoad = [result |-> NoCall, fresh |-> NoCall, complete |-> FALSE, source |-> <<>>]
    /\ EraIdle /\ CleanIdle /\ RegionIdle /\ AnaIdle

\* The environment replaces the raw extract while no run is in progress.
PlaceRawFile ==
    /\ pc \notin Running
    /\ \E t \in CsvTables :
          /\ rawFile # [exists |-> TRUE, rows |-> t]
          /\ rawFile' = [exists |-> TRUE, rows |-> t]
    /\ rawDirExists' = TRUE
    /\ UNCHANGED <<processedDirExists, snapshot, snapshotSource, snapshotAtStart,
                   pc, error, df_raw, df_clean, report, dashVars, eraVars, cleanVars, regionVars, anaVars>>

\* run_pipeline is entered: its locals are fresh.
run_pipeline_start ==
    /\ pc \notin Running
    /\ pc' = "started"
    /\ error' = ""
    /\ df_raw' = <<>>
    /\ df_clean' = <<>>
    /\ report' = NoReport
    /\ snapshotAtStart' = snapshot
    /\ UNCHANGED <<rawDirExists, rawFile, processedDirExists, snapshot,
                   snapshotSource, dashVars, eraVars, cleanVars, regionVars, anaVars>>

\* ensure_directories(raw_dir, processed_dir)
ensure_directories ==
    /\ pc = "started"
    /\ IF ~rawDirExists
       THEN /\ pc' = "raised"
            /\ error' = "FileNotFoundError"
            /\ UNCHANGED processedDirExists
       ELSE /\ pc' = "ensured"
            /\ processedDirExists' = TRUE
            /\ UNCHANGED error
    /\ UNCHANGED <<rawDirExists, rawFile, snapshot, snapshotSource, snapshotAtStart,
                   df_raw, df_clean, report, dashVars, eraVars, cleanVars, regionVars, anaVars>>

\* ingest_csv with a missing file read as an empty frame.
ingest_csv_lenient ==
    /\ pc = "ensured"
    /\ pc' = "ingested"
    /\ df_raw' = rawFile.rows
    /\ UNCHANGED <<rawDirExists, rawFile, processedDirExists, snapshot, snapshotSource,
                   snapshotAtStart, error, df_clean, report, dashVars, eraVars, cleanVars, regionVars, anaVars>>

\* ingest_csv(raw_path)
ingest_csv ==
    /\ pc = "ensured"
    /\ IF ~rawFile.exists
       THEN /\ pc' = "raised"
            /\ error' = "FileNotFoundError"
            /\ UNCHANGED df_raw
       ELSE /\ pc' = "ingested"
            /\ df_raw' = rawFile.rows
            /\ UNCHANGED error
    /\ UNCHANGED <<rawDirExists, rawFile, processedDirExists, snapshot, snapshotSource,
                   snapshotAtStart, df_clean, report, dashVars, eraVars, cleanVars, regionVars, anaVars>>

\* df_clean = clean_dataframe(df_raw)
run_pipeline_clean ==
    /\ pc = "ingested"
    /\ df_clean' = clean_dataframe(df_raw)
    /\ pc' = "cleaned"
    /\ UNCHANGED <<rawDirExists, rawFile, processedDirExists, snapshot, snapshotSource,
                   snapshotAtStart, error, df_raw, report, dashVars, eraVars, cleanVars, regionVars, anaVars>>

\* write_parquet: the parent directory is made and to_parquet opens the
\* file at processed_path itself for writing.
write_parquet_open ==
    /\ pc = "cleaned"
    /\ processedDirExists' = TRUE
    /\ snapshot' = TruncatedFile
    /\ pc' = "opened"
    /\ UNCHANGED <<rawDirExists, rawFile, snapshotSource, snapshotAtStart, error,
                   df_raw, df_clean, report, dashVars, eraVars, cleanVars, regionVars, anaVars>>

\* to_parquet writes the column chunks.
write_parquet_data ==
    /\ pc = "opened"
    /\ snapshot' = EncodeFrame(df_clean)
    /\ pc' = "stored"
    /\ UNCHANGED <<rawDirExists, rawFile, processedDirExists, snapshotSource,
                   snapshotAtStart, error, df_raw, df_clean, report, dashVars,
                   eraVars, cleanVars, regionVars, anaVars>>

\* to_parquet writes the footer and closes the file; write_parquet returns.
write_parquet_close ==
    /\ pc = "stored"
    /\ snapshot' = CloseFile(snapshot)
    /\ snapshotSource' = df_clean
    /\ pc' = "written"
    /\ UNCHANGED <<rawDirExists, rawFile, processedDirExists, snapshotAtStart, error,
                   df_raw, df_clean, report, dashVars, eraVars, cleanVars, regionVars, anaVars>>

\* Timestamp.isoformat() of a midnight timestamp; NaT gives "NaT".
IsoFormat(ts) ==
    IF ts = NaT THEN <<"N","a","T">>
    ELSE ZeroPad(YearOf(ts), 4) \o <<"-">> \o ZeroPad(MonthOf(ts), 2) \o <<"-">>
            \o ZeroPad(DayOf(ts), 2) \o <<"T","0","0",":","0","0",":","0","0">>

\* Series.min() and Series.max() of the period column; NaT when empty.
MinPeriod(df) ==
    IF df = <<>> THEN NaT
    ELSE CHOOSE p \in {df[i].TIME_PERIOD : i \in DOMAIN df} :
            \A i \in DOMAIN df : p <= df[i].TIME_PERIOD

MaxPeriod(df) ==
    IF df = <<>> THEN NaT
    ELSE CHOOSE p \in {df[i].TIME_PERIOD : i \in DOMAIN df} :
            \A i \in DOMAIN df : p >= df[i].TIME_PERIOD

PipelineReport(df, path) ==
    [made |-> TRUE,
     rows_processed |-> Len(df),
     countries |-> Cardinality({df[i].REF_AREA : i \in DOMAIN df}),
     periods |-> Cardinality({df[i].year_month : i \in DOMAIN df}),
     time_start |-> IsoFormat(MinPeriod(df)),
     time_end |-> IsoFormat(MaxPeriod(df)),
     parquet_path |-> path]

\* Lines 144-154: the report is built and returned.
run_pipeline_report ==
    /\ pc = "written"
    /\ report' = PipelineReport(df_clean, "processed_path")
    /\ pc' = "done"
    /\ UNCHANGED <<rawDirExists, rawFile, processedDirExists, snapshot, snapshotSource,
                   snapshotAtStart, error, df_raw, df_clean, dashVars, eraVars, cleanVars, regionVars, anaVars>>

\* The process is terminated from outside at some point of the run.
Interrupt ==
    /\ pc \in Running
    /\ pc' = "killed"
    /\ UNCHANGED <<rawDirExists, rawFile, processedDirExists, snapshot, snapshotSource,
                   snapshotAtStart, error, df_raw, df_clean, report, dashVars,
                   eraVars, cleanVars, regionVars, anaVars>>

\* to_parquet fails while the file is open (the device is full, say).
WriteFails ==
    /\ pc \in {"opened", "stored"}
    /\ pc' = "raised"
    /\ error' = "OSError"
    /\ UNCHANGED <<rawDirExists, rawFile, processedDirExists, snapshot, snapshotSource,
                   snapshotAtStart, df_raw, df_clean, report, dashVars, eraVars, cleanVars, regionVars, anaVars>>

\* What lastLoad records of a call: its result, what the body returns on
\* the file as it is now, and the frame the file was written from.
LoadRecord(res) ==
    [result |-> res,
     fresh |-> load_processed_data_body(snapshot),
     complete |-> snapshot.state = "complete",
     source |-> IF snapshot.state = "complete" THEN snapshotSource ELSE <<>>]

\* load_processed_data(processed_path), behind its cache_data.
load_processed_data ==
    /\ lastLoad' = LoadRecord(CachedResult(cacheProcessed, load_processed_data_body(snapshot)))
    /\ cacheProcessed' = CacheAfter(cacheProcessed, load_processed_data_body(snapshot))
    /\ UNCHANGED <<cacheDataset, pipeVars, eraVars, cleanVars, regionVars, anaVars>>

\* load_dataset(processed_path): its own cache_data around a call of
\* load_processed_data.
load_dataset ==
    LET inner == CachedResult(cacheProcessed, load_processed_data_body(snapshot))
    IN  /\ lastLoad' = LoadRecord(CachedResult(cacheDataset, inner))
        /\ cacheDataset' = CacheAfter(cacheDataset, inner)
        /\ cacheProcessed' =
              IF cacheDataset.hit THEN cacheProcessed
              ELSE CacheAfter(cacheProcessed, load_processed_data_body(snapshot))
        /\ UNCHANGED <<pipeVars, eraVars, cleanVars, regionVars, anaVars>>

\* The dashboard server is restarted: its caches start empty.
RestartDashboard ==
    /\ cacheProcessed # EmptyCache \/ cacheDataset # EmptyCache
    /\ cacheProcessed' = EmptyCache
    /\ cacheDataset' = EmptyCache
    /\ lastLoad' = [result |-> NoCall, fresh |-> NoCall, complete |-> FALSE, source |-> <<>>]
    /\ UNCHANGED <<pipeVars, eraVars, cleanVars, regionVars, anaVars>>

Next ==
    \/ PlaceRawFile
    \/ run_pipeline_start
    \/ ensure_directories
    \/ ingest_csv
    \/ run_pipeline_clean
    \/ write_parquet_open
    \/ write_parquet_data
    \/ write_parquet_close
    \/ run_pipeline_report
    \/ Interrupt
    \/ WriteFails
    \/ load_processed_data
    \/ load_dataset
    \/ RestartDashboard

Spec == Init /\ [][Next]_vars

(***************************************************************************)
(* Properties of era classification.                                       *)
(***************************************************************************)
\* The era table as the specification words it.
EraAsSpecified(p) ==
    IF p < Timestamp(2007, 7, 1) THEN "Pre-shock baseline"
    ELSE IF p < Timestamp(2014, 1, 1) THEN "Post-crisis recovery"
    ELSE IF p < Timestamp(2020, 1, 1) THEN "Commodity reset"
    ELSE IF p < Timestamp(2022, 2, 1) THEN "Pandemic shock"
    ELSE "Geopolitical reordering"

\* C1 as stated: classify_era returns the label of the specification's era
\* table ('Pre-shock baseline', 'Post-crisis recovery', 'Commodity reset',
\* 'Pandemic shock', 'Geopolitical reordering') for every period.
C1_EraLabelsAsSpecified ==
    eraOut # "none" => eraOut = EraAsSpecified(eraIn)

\* C1 amended: every period gets exactly one of the five labels the code
\* returns, 'Pre-GFC' before 2007-07-01, 'Post-GFC Recovery' from 2007-07-01
\* up to 2014-01-01, 'Commodity Reset' from 2014-01-01 up to 2020-01-01,
\* 'Pandemic Shock' from 2020-01-01 up to 2022-02-01 and 'Geopolitical
\* Reordering' from 2022-02-01 on, each interval closed below and open above.
C1_EraTotalHalfOpen ==
    eraOut # "none" =>
        /\ eraOut \in {"Pre-GFC", "Post-GFC Recovery", "Commodity Reset",
                       "Pandemic Shock", "Geopolitical Reordering"}
        /\ (eraOut = "Pre-GFC") <=> (eraIn < 20070701)
        /\ (eraOut = "Post-GFC Recovery") <=> (20070701 <= eraIn /\ eraIn < 20140101)
        /\ (eraOut = "Commodity Reset") <=> (20140101 <= eraIn /\ eraIn < 20200101)
        /\ (eraOut = "Pandemic Shock") <=> (20200101 <= eraIn /\ eraIn < 20220201)
        /\ (eraOut = "Geopolitical Reordering") <=> (20220201 <= eraIn)

\* The boundary 2007-07-01 has been classified as the second era.
C1_Witness ==
    eraIn = 20070701 /\ eraOut = "Post-GFC Recovery"

(***************************************************************************)
(* Properties of cleaning.                                                 *)
(***************************************************************************)
\* The calendar of the years around the model's inputs; 2008 is the leap
\* year among them.
CalendarDates ==
    LET MonthLength == <<31, 28, 31, 30, 31, 30, 31, 31, 30, 31, 30, 31>>
    IN  {t \in (2005..2009) \X (1..12) \X (1..31) :
            t[3] <= (IF t[2] = 2 /\ t[1] = 2008 THEN 29 ELSE MonthLength[t[2]])}

\* The strings strftime("%Y-%m-%d") produces for those dates.
WellFormedDates ==
    {ZeroPad(t[1], 4) \o <<"-">> \o ZeroPad(t[2], 2) \o <<"-">> \o ZeroPad(t[3], 2) :
        t \in CalendarDates}

\* The decimal numerals of the numbers below one hundred.
NumericLiterals ==
    {<<Digits[d + 1]>> : d \in 0..9}
        \cup {<<Digits[a + 1], Digits[b + 1]>> : a \in 0..9, b \in 0..9}

\* The raw row i carries a well-formed period and a numeric value.
WellFormedRow(i) ==
    raw[i].TIME_PERIOD \in WellFormedDates /\ raw[i].OBS_VALUE \in NumericLiterals

\* Normalised code and parsed timestamp of raw row i.
RawKey(i) == <<NormalizeCode(raw[i].REF_AREA), ToDatetime(raw[i].TIME_PERIOD)>>

\* C3 as stated: the cleaned table holds at most one row per normalised
\* area code and calendar month.
C3_OneRowPerCountryMonth ==
    cleanPc = "cleaned" =>
        \A i, j \in DOMAIN cleaned :
            (/\ cleaned[i].REF_AREA = cleaned[j].REF_AREA
             /\ cleaned[i].year = cleaned[j].year
             /\ cleaned[i].month = cleaned[j].month) => i = j

\* C4 as stated: every TIME_PERIOD of the cleaned table is the first day of
\* a month.
C4_PeriodIsMonthStart ==
    cleanPc = "cleaned" =>
        \A i \in DOMAIN cleaned : DayOf(cleaned[i].TIME_PERIOD) = 1

\* The raw row i is well-formed and no later well-formed raw row has its key.
LastOfKey(i) ==
    /\ WellFormedRow(i)
    /\ \A j \in (i + 1)..Len(raw) : WellFormedRow(j) => RawKey(j) # RawKey(i)

\* C5: raw rows with well-formed period and value that share the normalised
\* code and the parsed period leave exactly one cleaned row for that key, and
\* it carries the value of the last of them in raw input order.
C5_DedupKeepsLastRawRow ==
    cleanPc = "cleaned" =>
        \A i \in DOMAIN raw :
            LastOfKey(i) =>
                LET k == RawKey(i)
                    v == ToNumeric(raw[i].OBS_VALUE)
                IN  /\ \E n \in DOMAIN cleaned :
                          /\ cleaned[n].REF_AREA = k[1]
                          /\ cleaned[n].TIME_PERIOD = k[2]
                          /\ cleaned[n].OBS_VALUE = v
                    /\ \A m, n \in DOMAIN cleaned :
                          (/\ cleaned[m].REF_AREA = k[1] /\ cleaned[m].TIME_PERIOD = k[2]
                           /\ cleaned[n].REF_AREA = k[1] /\ cleaned[n].TIME_PERIOD = k[2])
                          => m = n

\* Two well-formed raw rows with one key and different values, the smaller
\* value last, have been cleaned.
C5_Witness ==
    /\ cleanPc = "cleaned"
    /\ \E i, j \in DOMAIN raw :
          /\ i < j /\ WellFormedRow(i) /\ WellFormedRow(j)
          /\ RawKey(i) = RawKey(j)
          /\ raw[i].REF_AREA # raw[j].REF_AREA
          /\ ToNumeric(raw[i].OBS_VALUE) > ToNumeric(raw[j].OBS_VALUE)

\* C6: cleaning returns for every raw table, and the index labels left
\* before deduplication are exactly those of the raw rows whose period is a
\* well-formed %Y-%m-%d date and whose value is a number; no cleaned row
\* carries a defaulted period or value.
C6_MalformedRowsDropped ==
    cleanPc = "cleaned" =>
        /\ survivors = {i \in DOMAIN raw : WellFormedRow(i)}
        /\ Len(cleaned) <= Cardinality(survivors)
        /\ \A n \in DOMAIN cleaned :
              cleaned[n].TIME_PERIOD # NaT /\ cleaned[n].OBS_VALUE # NaN

\* A table with a row of unparseable period, a row of unparseable value and
\* a well-formed row has been cleaned.
C6_Witness ==
    /\ cleanPc = "cleaned"
    /\ \E i, j, k \in DOMAIN raw :
          /\ raw[i].TIME_PERIOD = BadPeriod
          /\ raw[j].OBS_VALUE = BadValue
          /\ WellFormedRow(k)
    /\ Cardinality(survivors) = 1

(***************************************************************************)
(* Properties of the snapshot, the pipeline run and the cached reads.      *)
(***************************************************************************)
\* C2 as stated: once a run began with a complete snapshot at the path, the
\* path never holds anything but a complete snapshot, and a run that was
\* interrupted or failed leaves the snapshot it found.
C2_WriteAllOrNothing ==
    snapshotAtStart.state = "complete" =>
        /\ snapshot.state = "complete"
        /\ pc \in {"killed", "raised"} => snapshot = snapshotAtStart

RawMissing == ~rawDirExists \/ ~rawFile.exists

\* C7: while the raw directory or the raw file is missing, a run gets no
\* further than ensure_directories and ingest_csv, ends by raising
\* FileNotFoundError, has cleaned nothing and made no report, and the
\* snapshot is the one the run found.
C7_SetupErrorsAreFatal ==
    (RawMissing /\ pc # "idle") =>
        /\ pc \in {"started", "ensured", "raised", "killed"}
        /\ pc = "ensured" => rawDirExists
        /\ pc = "raised" => error = "FileNotFoundError"
        /\ df_raw = <<>> /\ df_clean = <<>>
        /\ report = NoReport
        /\ snapshot = snapshotAtStart

\* A run has raised FileNotFoundError for the missing raw file with an
\* earlier snapshot in place.
C7_Witness ==
    /\ pc = "raised" /\ error = "FileNotFoundError"
    /\ rawDirExists /\ ~rawFile.exists
    /\ snapshot.state = "complete"

\* C8 as stated: a cached load of a complete snapshot returns what the
\* uncached body returns on the file as it is at the call.
C8_CacheTransparent ==
    lastLoad.complete => lastLoad.result = lastLoad.fresh

\* C9: with no file at the processed path, a load raises FileNotFoundError;
\* it returns no table and stores none in either cache.
C9_AbsentSnapshotRaises ==
    snapshot.state = "absent" =>
        /\ lastLoad.result \in {NoCall, Raised("FileNotFoundError")}
        /\ cacheProcessed = EmptyCache
        /\ cacheDataset = EmptyCache

\* A load was called with no file at the path and raised.
C9_Witness ==
    /\ snapshot.state = "absent"
    /\ lastLoad.result = Raised("FileNotFoundError")

\* C10 as stated: a load called once write_parquet(T) has completed returns
\* a frame with the rows of T, its columns, and a timestamp period column.
C10_RoundTrip ==
    lastLoad.complete =>
        /\ lastLoad.result.kind = "ok"
        /\ lastLoad.result.frame.rows = lastLoad.source
        /\ DOMAIN lastLoad.result.frame.dtypes = ColumnNames
        /\ lastLoad.result.frame.dtypes["TIME_PERIOD"] = "timestamp"

\* The body of load_processed_data, run on a complete snapshot, returns the
\* frame the snapshot was written from.
UncachedRoundTrip ==
    lastLoad.complete =>
        /\ lastLoad.fresh.kind = "ok"
        /\ lastLoad.fresh.frame.rows = lastLoad.source
        /\ DOMAIN lastLoad.fresh.frame.dtypes = ColumnNames
        /\ lastLoad.fresh.frame.dtypes["TIME_PERIOD"] = "timestamp"

\* C11: cleaning is idempotent: clean_dataframe applied to a table it has
\* already returned gives back the same table.
C11_CleaningIdempotent == cleanPc = "recleaned" => recleaned = cleaned

\* A raw table with a dropped row and a duplicated key was cleaned twice and
\* something is left of it.
C11_Witness ==
    /\ cleanPc = "recleaned"
    /\ recleaned # <<>>
    /\ Len(cleaned) + 2 <= Len(raw)
    /\ Cardinality(survivors) > Len(cleaned)
    /\ Cardinality(survivors) < Len(raw)

\* C12: the table clean_dataframe returns is sorted ascending by
\* (REF_AREA, TIME_PERIOD): each row's key is strictly less than the key of
\* the row after it.
C12_SortedByCodeAndPeriod ==
    cleanPc # "raw" =>
        \A i \in 1..(Len(cleaned) - 1) : KeyLess(cleaned[i], cleaned[i + 1])

\* A cleaned table of two codes whose raw rows arrived in descending key
\* order.
C12_Witness ==
    /\ cleanPc = "cleaned"
    /\ Len(cleaned) = 3
    /\ Len(raw) = 3
    /\ cleaned[1].REF_AREA # cleaned[3].REF_AREA
    /\ \A i \in 1..2 :
          \/ StrLess(RawKey(i + 1)[1], RawKey(i)[1])
          \/ RawKey(i + 1)[1] = RawKey(i)[1] /\ RawKey(i + 1)[2] < RawKey(i)[2]

\* The regions whose bulk list names the code.
BulkRegions(code) ==
    {REGION_DEFINITIONS[n].region :
        n \in {k \in DOMAIN REGION_DEFINITIONS :
                  code \in SeqToSet(REGION_DEFINITIONS[k].codes)}}

\* The entries region_map.py adds one code at a time, after the bulk lists.
SingleCodeEntries ==
    AGGREGATE_OVERRIDES @@
    (<<"P","Y","F">> :> "East Asia & Pacific") @@
    (<<"R","E","U">> :> "Sub-Saharan Africa") @@
    (<<"S","L","V">> :> "Latin America & Caribbean") @@
    (<<"S","Y","C">> :> "Sub-Saharan Africa") @@
    (<<"T","J","K">> :> "Europe & Central Asia")

RegionLabels ==
    {REGION_DEFINITIONS[n].region : n \in DOMAIN REGION_DEFINITIONS}
        \cup {SingleCodeEntries[c] : c \in DOMAIN SingleCodeEntries}
        \cup {REGION_FALLBACK}

\* C13: the region lookup is total: every code gets a region label; a code
\* with a single-code entry gets that entry's region, also when a bulk list
\* names it; any other code a bulk list names gets that list's region; a
\* code in neither gets "Other / Unmapped".
C13_RegionLookupTotal ==
    regionOut # "none" =>
        /\ regionOut \in RegionLabels
        /\ regionIn \in DOMAIN SingleCodeEntries =>
                regionOut = SingleCodeEntries[regionIn]
        /\ (regionIn \notin DOMAIN SingleCodeEntries /\ BulkRegions(regionIn) # {}) =>
                BulkRegions(regionIn) = {regionOut}
        /\ (regionIn \notin DOMAIN SingleCodeEntries /\ BulkRegions(regionIn) = {}) =>
                regionOut = "Other / Unmapped"

\* The lookup of a code that a bulk list and a single-code entry both name.
C13_Witness ==
    /\ regionOut # "none"
    /\ regionIn \in DOMAIN SingleCodeEntries
    /\ BulkRegions(regionIn) # {}

\* C14: after clean_dataframe every REF_AREA is non-empty, trimmed and in
\* upper case, and every REF_AREA_LABEL is non-empty and trimmed; a missing
\* code has become "UNK" and a missing label "Unknown Region".
C14_IdentifiersNormalized ==
    cleanPc # "raw" =>
        /\ \A i \in DOMAIN cleaned :
              /\ cleaned[i].REF_AREA # <<>>
              /\ cleaned[i].REF_AREA # NA
              /\ StrStrip(cleaned[i].REF_AREA) = cleaned[i].REF_AREA
              /\ StrUpper(cleaned[i].REF_AREA) = cleaned[i].REF_AREA
              /\ cleaned[i].REF_AREA_LABEL # <<>>
              /\ cleaned[i].REF_AREA_LABEL # NA
              /\ StrStrip(cleaned[i].REF_AREA_LABEL) = cleaned[i].REF_AREA_LABEL
        /\ (\E i \in DOMAIN raw : raw[i].REF_AREA = NA) =>
              \E i \in DOMAIN cleaned : cleaned[i].REF_AREA = <<"U","N","K">>
        /\ (raw # <<>> /\ \A i \in DOMAIN raw : raw[i].REF_AREA_LABEL = NA) =>
              \A i \in DOMAIN cleaned :
                  cleaned[i].REF_AREA_LABEL =
                      <<"U","n","k","n","o","w","n"," ","R","e","g","i","o","n">>

\* C14 for raw tables with no cell of blanks only.
C14_NormalizedUnlessBlank ==
    (/\ cleanPc # "raw"
     /\ \A i \in DOMAIN raw :
            raw[i].REF_AREA # <<" ">> /\ raw[i].REF_AREA_LABEL # <<" ">>)
        => C14_IdentifiersNormalized

\* The labels the rows of area code c carry in the table.
LabelsOfCode(c) == {adf[i].REF_AREA_LABEL : i \in {j \in DOMAIN adf : adf[j].REF_AREA = c}}

\* The observations of area code c later than lo and not later than hi.
ObsBetween(c, lo, hi) ==
    Column(SelectSeq(adf, LAMBDA r : r.REF_AREA = c /\ r.TIME_PERIOD > lo
                                       /\ r.TIME_PERIOD <= hi),
           "OBS_VALUE")

\* No two area codes of the table carry the same label.
LabelsDistinct ==
    \A i, j \in DOMAIN adf :
        adf[i].REF_AREA_LABEL = adf[j].REF_AREA_LABEL => adf[i].REF_AREA = adf[j].REF_AREA

\* C15: compute_breaks reports a country if and only if it has an
\* observation in the window months ending at latest_period and one in the
\* window months before those; the record holds the means of the country's
\* own observations in the two windows and their signed difference.
C15_BreakWindowsPerCountry ==
    aCall = "compute_breaks" =>
        \A c \in {adf[i].REF_AREA : i \in DOMAIN adf} :
            LET current == ObsBetween(c, MinusMonths(latest_period, window), latest_period)
                previous == ObsBetween(c, MinusMonths(latest_period, 2 * window),
                                       MinusMonths(latest_period, window))
                mine == {k \in DOMAIN aOut.value : aOut.value[k].country \in LabelsOfCode(c)}
            IN  /\ (current # <<>> /\ previous # <<>>) <=> mine # {}
                /\ \A k \in mine :
                      /\ aOut.value[k].latest_avg = Mean(current)
                      /\ aOut.value[k].prev_avg = Mean(previous)
                      /\ aOut.value[k].shift = RatSub(Mean(current), Mean(previous))

\* C15 for the tables in which no two area codes share a label.
C15_BreakWindowsWhenLabelsDistinct == LabelsDistinct => C15_BreakWindowsPerCountry

GER == <<"G","e","r">>

\* The jump of country A asked for with window 6 at the end of the second
\* run.
JumpCall ==
    /\ aCall = "compute_breaks"
    /\ adf \in JumpTables
    /\ latest_period = Timestamp(2007, 12, 1)
    /\ window = 6

BreaksRanked ==
    \A k \in 1..(Len(aOut.value) - 1) :
        ~ RatLess(RatAbs(aOut.value[k].shift), RatAbs(aOut.value[k + 1].shift))

JumpReported == \E k \in DOMAIN aOut.value :
                    aOut.value[k].country = GER /\ aOut.value[k].shift = <<10, 1>>

\* C16 as stated: the breaks are in non-increasing order of |shift|, and in
\* the jump data A is reported with shift +10 and is first whenever no
\* other country has a larger |shift|.
C16_BreaksRankedJumpFirst ==
    /\ aCall = "compute_breaks" => BreaksRanked
    /\ JumpCall =>
          /\ JumpReported
          /\ (\A k \in DOMAIN aOut.value :
                  ~ RatLess(<<10, 1>>, RatAbs(aOut.value[k].shift)))
                => aOut.value[1].country = GER

\* C16 amended: the breaks are in non-increasing order of |shift|, and in
\* the jump data A is reported with shift +10 and is first whenever every
\* other country has a smaller |shift|.
C16_BreaksRankedJumpFirstIfStrict ==
    /\ aCall = "compute_breaks" => BreaksRanked
    /\ JumpCall =>
          /\ JumpReported
          /\ (\A k \in DOMAIN aOut.value :
                  aOut.value[k].country # GER =>
                      RatLess(RatAbs(aOut.value[k].shift), <<10, 1>>))
                => aOut.value[1].country = GER

\* The jump data next to a country of smaller shift whose label sorts
\* first: A is ranked first of two.
C16_Witness ==
    /\ JumpCall
    /\ Len(aOut.value) = 2
    /\ aOut.value[1].country = GER
    /\ aOut.value[2].shift = <<3, 1>>

\* C17: compute_volatility gives a row a value only when the country's
\* window observations ending at that row number at least 3, and the value
\* is then the standard deviation of those observations of that country
\* alone; otherwise the value is absent.
C17_VolatilityOwnWindow ==
    (aCall = "compute_volatility" /\ aOut.kind = "returned") =>
        \A k \in DOMAIN aOut.value :
            LET row == adf[aOut.value[k].level_1]
                series == SelectSeq(SortByLabelPeriod(adf),
                                    LAMBDA r : r.REF_AREA = row.REF_AREA)
                at == CHOOSE n \in DOMAIN series : series[n].idx = row.idx
                first == IF at - window + 1 < 1 THEN 1 ELSE at - window + 1
                own == Column(SubSeq(series, first, at), "OBS_VALUE")
            IN  IF Len(own) >= 3
                THEN aOut.value[k].volatility = Std(own)
                ELSE IsNaN(aOut.value[k].volatility)

\* C17 for the tables in which no two area codes share a label.
C17_VolatilityWhenLabelsDistinct == LabelsDistinct => C17_VolatilityOwnWindow

\* C18: every aggregation call returns a result; none raises.
C18_AggregationTotal == aCall \notin {"none", "idle"} => aOut.kind = "returned"

\* The rows of the table at latest_period.
LatestSlice == SelectSeq(adf, LAMBDA r : r.TIME_PERIOD = latest_period)

\* C19: for a slice with no country the hotspot share is 0: share_hotspots
\* returns 0, and regional_share returns without a NaN share.
C19_ZeroCountryShareIsZero ==
    LatestSlice = <<>> =>
        /\ aCall = "share_hotspots" => aOut = Result(<<0, 1>>)
        /\ aCall = "regional_share" =>
              /\ aOut.kind = "returned"
              /\ \A k \in DOMAIN aOut.value : aOut.value[k].share = <<0, 1>>

\* C20: regional_share has one row per region of the slice, holding the
\* number of distinct countries, the number of distinct countries with a
\* value at or above the threshold, and 100 times their ratio; so high is
\* at most countries and share at most 100.
C20_ShareOfDistinctCountries ==
    aCall = "regional_share" =>
        /\ {aOut.value[k].region : k \in DOMAIN aOut.value}
              = {LatestSlice[i].region : i \in DOMAIN LatestSlice}
        /\ \A k \in DOMAIN aOut.value :
              LET rows == SelectSeq(LatestSlice, LAMBDA r : r.region = aOut.value[k].region)
                  all == {rows[i].REF_AREA : i \in DOMAIN rows}
                  hot == {rows[i].REF_AREA : i \in {j \in DOMAIN rows :
                                                       rows[j].OBS_VALUE >= threshold}}
              IN  /\ aOut.value[k].countries = Cardinality(all)
                  /\ aOut.value[k].high = Cardinality(hot)
                  /\ aOut.value[k].share = Rat(100 * Cardinality(hot), Cardinality(all))
                  /\ 0 <= aOut.value[k].high
                  /\ aOut.value[k].high <= aOut.value[k].countries
                  /\ ~ RatLess(<<100, 1>>, aOut.value[k].share)
                  /\ ~ RatLess(aOut.value[k].share, <<0, 1>>)

\* C20 for the tables with one row per country and period.
C20_ShareWhenKeysUnique ==
    (\A i, j \in DOMAIN adf :
        (adf[i].REF_AREA = adf[j].REF_AREA /\ adf[i].TIME_PERIOD = adf[j].TIME_PERIOD)
            => i = j)
        => C20_ShareOfDistinctCountries

\* r is a number from 0 to 1.
InUnit(r) == ~ IsNaN(r) /\ ~ RatLess(r, <<0, 1>>) /\ ~ RatLess(<<1, 1>>, r)

\* The values of a column of the returned scores differ between countries.
Differs(name) == Cardinality({aOut.value[k][name] : k \in DOMAIN aOut.value}) > 1

\* C21: for a population of at least two countries that differ in mean, in
\* volatility and in range, every normalized component and every risk_score
\* is a number from 0 to 1.
C21_RiskScoresInUnitInterval ==
    (/\ aCall = "compute_risk_scores"
     /\ Len(aOut.value) >= 2
     /\ Differs("mean") /\ Differs("volatility") /\ Differs("range"))
        => \A k \in DOMAIN aOut.value :
              /\ InUnit(normalize(Column(aOut.value, "mean"))[k])
              /\ InUnit(normalize(Column(aOut.value, "volatility"))[k])
              /\ InUnit(normalize(Column(aOut.value, "range"))[k])
              /\ InUnit(aOut.value[k].risk_score)

\* C21 for the tables in which every label has at least two observations.
C21_InUnitWhenTwoObservations ==
    (\A l \in LabelsOf(adf) : Len(ValuesOfLabel(adf, l)) >= 2)
        => C21_RiskScoresInUnitInterval

\* The observations of area code c, in row order.
ValuesOfCode(c) == Column(SelectSeq(adf, LAMBDA r : r.REF_AREA = c), "OBS_VALUE")

CodesOf(df) == {df[i].REF_AREA : i \in DOMAIN df}

\* The five statistics of one country's observations.
StatsOfCode(c) ==
    [mean |-> Mean(ValuesOfCode(c)),
     volatility |-> Sqrt(Std(ValuesOfCode(c))),
     p95 |-> Quantile(ValuesOfCode(c), 19, 20),
     p05 |-> Quantile(ValuesOfCode(c), 1, 20),
     range |-> RatSub(Quantile(ValuesOfCode(c), 19, 20), Quantile(ValuesOfCode(c), 1, 20))]

\* Min-max scaling of x over the numbers of V: 0 when they are all equal.
MinMax(x, V) ==
    LET nums == {v \in V : ~ IsNaN(v)}
        hi == CHOOSE m \in nums : \A o \in nums : ~ RatLess(m, o)
        lo == CHOOSE m \in nums : \A o \in nums : ~ RatLess(o, m)
    IN  IF nums = {} THEN RatNaN
        ELSE IF hi = lo THEN <<0, 1>>
        ELSE RatDiv(RatSub(x, lo), RatSub(hi, lo))

\* C22: compute_risk_scores holds, for each country, the mean, standard
\* deviation, p95, p05 and range = p95 - p05 of all its rows, and
\* risk_score = 0.40 norm(mean) + 0.35 norm(volatility) + 0.25 norm(range),
\* each metric min-max scaled over the countries.
C22_RiskScoreFormula ==
    aCall = "compute_risk_scores" =>
        \A c \in CodesOf(adf) :
            \E k \in DOMAIN aOut.value :
                /\ aOut.value[k].Country \in LabelsOfCode(c)
                /\ aOut.value[k].mean = StatsOfCode(c).mean
                /\ aOut.value[k].volatility = StatsOfCode(c).volatility
                /\ aOut.value[k].p95 = StatsOfCode(c).p95
                /\ aOut.value[k].p05 = StatsOfCode(c).p05
                /\ aOut.value[k].range = RatSub(StatsOfCode(c).p95, StatsOfCode(c).p05)
                /\ aOut.value[k].risk_score =
                      RatAdd(RatAdd(
                          RatMul(<<40, 100>>,
                                 MinMax(StatsOfCode(c).mean,
                                        {StatsOfCode(d).mean : d \in CodesOf(adf)})),
                          RatMul(<<35, 100>>,
                                 MinMax(StatsOfCode(c).volatility,
                                        {StatsOfCode(d).volatility : d \in CodesOf(adf)}))),
                          RatMul(<<25, 100>>,
                                 MinMax(StatsOfCode(c).range,
                                        {StatsOfCode(d).range : d \in CodesOf(adf)})))

\* C22 for the tables in which no two area codes share a label.
C22_FormulaWhenLabelsDistinct == LabelsDistinct => C22_RiskScoreFormula

\* All countries have the same value in a column of the returned scores.
Degenerate(name) == Cardinality({aOut.value[k][name] : k \in DOMAIN aOut.value}) = 1

\* The normalized column, as the claim has it: 0 throughout when the
\* column is degenerate.
NormOrZero(name) ==
    IF Degenerate(name) THEN [k \in DOMAIN aOut.value |-> <<0, 1>>]
    ELSE normalize(Column(aOut.value, name))

\* C23: when all countries have the same value on a metric, normalize and
\* _normalize return 0 for every country on it, and risk_score is the
\* weighted sum of the other metrics' normalized values.
C23_DegenerateMetricIsZero ==
    aCall = "compute_risk_scores" =>
        /\ \A name \in {"mean", "volatility", "range"} :
              Degenerate(name) =>
                  \A k \in DOMAIN aOut.value :
                      /\ normalize(Column(aOut.value, name))[k] = <<0, 1>>
                      /\ export_normalize(Column(aOut.value, name))[k] = <<0, 1>>
        /\ \A k \in DOMAIN aOut.value :
              aOut.value[k].risk_score =
                  Weighted(NormOrZero("mean")[k], NormOrZero("volatility")[k],
                           NormOrZero("range")[k])

\* C23 for the tables in which every label has at least two observations.
C23_ZeroWhenTwoObservations ==
    (\A l \in LabelsOf(adf) : Len(ValuesOfLabel(adf, l)) >= 2)
        => C23_DegenerateMetricIsZero

\* C26: compute_risk_scores returns one row for each area code of the
\* table and compute_breaks at most one record per area code, and no record
\* is made from the rows of two area codes.
C26_OneRecordPerCountry ==
    /\ aCall = "compute_risk_scores" =>
          /\ Len(aOut.value) = Cardinality(CodesOf(adf))
          /\ \A k \in DOMAIN aOut.value :
                Cardinality({c \in CodesOf(adf) : aOut.value[k].Country \in LabelsOfCode(c)}) = 1
    /\ aCall = "compute_breaks" =>
          /\ \A c \in CodesOf(adf) :
                Cardinality({k \in DOMAIN aOut.value :
                                aOut.value[k].country \in LabelsOfCode(c)}) <= 1
          /\ \A k \in DOMAIN aOut.value :
                Cardinality({c \in CodesOf(adf) : aOut.value[k].country \in LabelsOfCode(c)}) = 1

\* C26 for the tables in which no two area codes share a label.
C26_OneRecordWhenLabelsDistinct == LabelsDistinct => C26_OneRecordPerCountry

C25_DistributionOfSlice ==
    aCall = "summarize_distribution" =>
        LET xs == Column(LatestSlice, "OBS_VALUE")
            s == SortInts(xs)
            n == Len(xs)
        IN  /\ aOut.kind = "returned"
            /\ (aOut.value = <<>>) <=> (LatestSlice = <<>>)
            /\ LatestSlice # <<>> =>
                  /\ DOMAIN aOut.value = {"p10", "p25", "median", "p75", "p90", "mean", "std"}
                  /\ aOut.value.mean = Rat(Sum(xs), n)
                  /\ aOut.value.std = Std(xs)
                  /\ aOut.value.median =
                        (IF n % 2 = 1 THEN <<s[(n + 1) \div 2], 1>>
                         ELSE Rat(s[n \div 2] + s[(n \div 2) + 1], 2))
                  /\ aOut.value.p10 = Quantile(xs, 1, 10)
                  /\ aOut.value.p25 = Quantile(xs, 1, 4)
                  /\ aOut.value.p75 = Quantile(xs, 3, 4)
                  /\ aOut.value.p90 = Quantile(xs, 9, 10)

\* A summary of a slice of two values, taken from a table that holds rows
\* of another period as well.
C25_Witness ==
    /\ aCall = "summarize_distribution"
    /\ Len(LatestSlice) = 2
    /\ Len(adf) = 3
    /\ aOut.value.p10 # aOut.value.p90

\* The rows of the snapshot file as read_parquet returns them.
SnapshotRows == ReadParquet(snapshot).rows

\* C27: after a successful run_pipeline the report's rows_processed is the
\* number of rows of the snapshot just written, countries the number of its
\* distinct area codes, periods the number of its distinct period values,
\* time_start and time_end its minimum and maximum period and parquet_path
\* the path written; and a report exists only once the write has completed.
C27_ReportMatchesSnapshot ==
    /\ report.made => pc = "done" /\ snapshot.state = "complete"
    /\ pc = "done" =>
          /\ report.made
          /\ report.rows_processed = Len(SnapshotRows)
          /\ report.countries =
                Cardinality({SnapshotRows[i].REF_AREA : i \in DOMAIN SnapshotRows})
          /\ report.periods =
                Cardinality({SnapshotRows[i].TIME_PERIOD : i \in DOMAIN SnapshotRows})
          /\ report.time_start = IsoFormat(MinPeriod(SnapshotRows))
          /\ report.time_end = IsoFormat(MaxPeriod(SnapshotRows))
          /\ report.parquet_path = "processed_path"

\* Every period of the snapshot is the first day of its month.
SnapshotMonthStarts ==
    \A i \in DOMAIN SnapshotRows : DayOf(SnapshotRows[i].TIME_PERIOD) = 1

\* C27 for the runs whose snapshot holds first-of-month periods only.
C27_ReportMatchesWhenMonthStarts ==
    (pc = "done" /\ SnapshotMonthStarts) => C27_ReportMatchesSnapshot

\* A run has returned its report for a snapshot of two rows.
C27_ReportOfTwoRows ==
    pc = "done" /\ report.made /\ report.rows_processed = 2

\* The index labels of the rows of a frame.
IndexLabels(df) == {df[i].idx : i \in DOMAIN df}

\* The row lies in the span of the two windows: later than latest_period
\* less twice the window, and not later than latest_period.
InSpan(r) ==
    /\ MinusMonths(latest_period, 2 * window) < r.TIME_PERIOD
    /\ r.TIME_PERIOD <= latest_period

\* The values of the rows of label l with lo < period <= hi.
LabelObsBetween(l, lo, hi) ==
    Column(SelectSeq(adf, LAMBDA r : /\ r.REF_AREA_LABEL = l
                                      /\ lo < r.TIME_PERIOD
                                      /\ r.TIME_PERIOD <= hi),
           "OBS_VALUE")

\* C28: the current and previous windows of compute_breaks are disjoint and
\* adjacent: a row within the span of 2 * window months ending at
\* latest_period is in exactly one of them, a row outside it is in neither,
\* and the two averages of every BreakPoint are averages of rows of the
\* span only, the later window months for latest_avg and the earlier for
\* prev_avg.
C28_WindowsDisjointAdjacent ==
    aCall = "compute_breaks" =>
        LET cur == IndexLabels(CurrentWindow(adf, latest_period, window))
            prev == IndexLabels(PrevWindow(adf, latest_period, window))
            mid == MinusMonths(latest_period, window)
            lo == MinusMonths(latest_period, 2 * window)
        IN  /\ cur \cap prev = {}
            /\ \A i \in DOMAIN adf :
                  (adf[i].idx \in cur \cup prev) <=> InSpan(adf[i])
            /\ aOut.kind = "returned"
            /\ \A k \in DOMAIN aOut.value :
                  /\ aOut.value[k].latest_avg =
                        Mean(LabelObsBetween(aOut.value[k].country, mid, latest_period))
                  /\ aOut.value[k].prev_avg =
                        Mean(LabelObsBetween(aOut.value[k].country, lo, mid))

\* compute_breaks has reported a shift for a table with a row on the
\* boundary between the windows, a row in the current window and a row
\* outside the span.
C28_Witness ==
    /\ aCall = "compute_breaks"
    /\ aOut.kind = "returned"
    /\ aOut.value # <<>>
    /\ \E i, j, k \in DOMAIN adf :
          /\ adf[i].TIME_PERIOD = MinusMonths(latest_period, window)
          /\ adf[j].TIME_PERIOD > MinusMonths(latest_period, window)
          /\ adf[j].TIME_PERIOD <= latest_period
          /\ ~ InSpan(adf[k])

\* The same with latest_period at a month end, so that the window bounds
\* are clipped to the length of the month.
C28_WitnessMonthEnd ==
    /\ aCall = "compute_breaks"
    /\ aOut.kind = "returned"
    /\ aOut.value # <<>>
    /\ DayOf(latest_period) = 31
    /\ DayOf(MinusMonths(latest_period, window)) = 30

\* The raw row j has a well-formed period and a value that does not parse.
UnparseableValueRow(j) ==
    /\ raw[j].TIME_PERIOD \in WellFormedDates
    /\ ToNumeric(raw[j].OBS_VALUE) = NaN

\* The raw row j is the last of the rows with its key, its value does not
\* parse, and i is the last row before it with that key and a valid value.
DisplacingPair(i, j) ==
    /\ i < j
    /\ LastOfKey(i)
    /\ UnparseableValueRow(j)
    /\ RawKey(j) = RawKey(i)
    /\ \A k \in (j + 1)..Len(raw) :
          raw[k].TIME_PERIOD \in WellFormedDates => RawKey(k) # RawKey(j)

\* C29: when the last raw row of a key has an unparseable value and an
\* earlier row of the key is valid, the cleaned table holds exactly one row
\* for the key, and it carries the value of the last row whose value
\* parsed.
C29_InvalidDuplicateDoesNotDisplace ==
    cleanPc = "cleaned" =>
        \A i, j \in DOMAIN raw :
            DisplacingPair(i, j) =>
                /\ Cardinality({n \in DOMAIN cleaned :
                                  <<cleaned[n].REF_AREA, cleaned[n].TIME_PERIOD>> = RawKey(i)}) = 1
                /\ \A n \in DOMAIN cleaned :
                      <<cleaned[n].REF_AREA, cleaned[n].TIME_PERIOD>> = RawKey(i) =>
                          cleaned[n].OBS_VALUE = ToNumeric(raw[i].OBS_VALUE)

\* A table whose last row of a key has an unparseable value, after two
\* valid rows of that key with different values, has been cleaned.
C29_Witness ==
    /\ cleanPc = "cleaned"
    /\ \E h, i, j \in DOMAIN raw :
          /\ h < i
          /\ DisplacingPair(i, j)
          /\ WellFormedRow(h)
          /\ RawKey(h) = RawKey(i)
          /\ raw[h].OBS_VALUE # raw[i].OBS_VALUE

\* Country and score of the rows of a scores frame.
CountryScores(t) ==
    [k \in DOMAIN t |-> [Country |-> t[k].Country, risk_score |-> t[k].risk_score]]

\* C30: the export's _build_risk_sections gives every country the risk
\* score, and the rank, that the dashboard's compute_risk_scores gives it,
\* and the rolling volatility render_profile_scatter computes inline is
\* the frame compute_volatility returns for the same window.
C30_DuplicatesAgree ==
    /\ aCall = "build_risk_sections" =>
          /\ aOut.kind = "returned"
          /\ aOut.value.data_raw = CountryScores(Head20(compute_risk_scores(adf).value))
          /\ \A l \in LabelsOf(adf) :
                \E k \in DOMAIN aOut.value.data_raw : aOut.value.data_raw[k].Country = l
    /\ aCall = "render_profile_scatter" => aOut = compute_volatility(adf, window)

\* The export has scored two countries of which one metric is the same for
\* both, and the scores are numbers that differ.
C30_Witness ==
    /\ aCall = "build_risk_sections"
    /\ Len(aOut.value.data_raw) = 2
    /\ ~ IsNaN(aOut.value.data_raw[1].risk_score)
    /\ ~ IsNaN(aOut.value.data_raw[2].risk_score)
    /\ aOut.value.data_raw[1].risk_score # aOut.value.data_raw[2].risk_score
    /\ \E name \in {"mean", "volatility", "range"} :
          LET s == Column(GroupStats(adf), name)
          IN  ~ IsNaN(s[1]) /\ s[1] = s[2]

\* The inline rolling volatility has been computed for a window the slider
\* offers and holds a number.
C30_WitnessRolling ==
    /\ aCall = "render_profile_scatter"
    /\ aOut.kind = "returned"
    /\ \E k \in DOMAIN aOut.value : ~ IsNaN(aOut.value[k].volatility)

====
